---- MODULE Spec2Model ----
(***************************************************************************)
(* Order & Position Execution Gateway of zup-terminal-backend.             *)
(*                                                                         *)
(*   SpecCache  the TokenCache class (get / set / clear) under a clock     *)
(*   Spec       the session part of the gateway routes: account lookup,    *)
(*              token cache, upstream login, first upstream trade request, *)
(*              for two request slots that interleave at their awaits      *)
(*   SpecClose  POST /api/positions/:positionId/close from its first       *)
(*              upstream close request to its reply                        *)
(*   SpecPlace  POST /api/orders/market and POST /api/orders/pending from  *)
(*              validation to the reply                                    *)
(*   SpecFilter the closed-trade filter of GET /api/positions/:accountId,  *)
(*              in both variants of the route, on one raw trade record     *)
(*   SpecList   GET /api/positions/:accountId, both variants, from its     *)
(*              first upstream fetch to the reply                          *)
(*   SpecCloseAll  POST /api/positions/close-all from its fetch of the     *)
(*              open positions to the reply                                *)
(*   SpecGate   one request through any gateway route or metaapi-login:    *)
(*              checks, account lookup, password, token cache, login,      *)
(*              first trade call and the timers around the calls           *)
(*              (SpecGateLive: with the fairness of lookup and timers)     *)
(*   SpecAlerts the in-memory price-alert store and its five routes        *)
(***************************************************************************)
EXTENDS Integers, Sequences, FiniteSets, TLC

VARIABLES now, ticks, cache, lastSet, ev, req, cp, po, ft, ls, ca, gw, al

vars == <<now, ticks, cache, lastSet, ev, req, cp, po, ft, ls, ca, gw, al>>

\* the variables of the session part, and those of the close chains
sessionVars == <<now, ticks, cache, lastSet, ev, req>>

chainVars == <<cp>>

\* the variables of order placement
placeVars == <<po>>

\* the variables of the routes after their session part
\* the variables of the listing and of its closed-trade filter
listVars == <<ft, ls>>

\* the variables of close-all
closeAllVars == <<ca>>

\* the variable of the request gate (validation, lookup, session, timeouts)
gateVars == <<gw>>

\* the variable of the price-alert store
alertVars == <<al>>

routeVars == <<chainVars, placeVars, listVars, closeAllVars, gateVars, alertVars>>

(***************************************************************************)
(* Bounds of the model and constants of the program.                       *)
(***************************************************************************)
\* how many times the clock may advance in one behaviour
MaxTicks == 3

\* tokenCache: the safety buffer of get, in ms
SafetyBufferMs == 120000
\* tokenCache: the default ttlSeconds of set, and the ttl every route passes
DefaultTtlSeconds == 3600
\* tokenCache: ms per second in expiresAt = Date.now() + ttlSeconds * 1000
MsPerSecond == 1000

\* Date.now() is counted from the start of the behaviour; the clock advances
\* by one of these steps (1 ms, just under a second, just under the validity
\* window of a default-ttl token)
TickSteps == {1, 999, 3479000}

Accounts == {"A1", "A2"}
Users == {"U1", "U2"}
Tokens == {"t1", "t2"}
\* JavaScript null / undefined / '' : every falsy token value
NoToken == "null"
\* the ttlSeconds arguments tried on TokenCache.set
TtlChoices == {DefaultTtlSeconds, 121, 120}

(***************************************************************************)
(* TokenCache (src/src/lib/default-favorites.ts).  The Map is a function   *)
(* whose domain is the set of keys present.                                *)
(***************************************************************************)
MapDelete(m, k) == [x \in (DOMAIN m) \ {k} |-> m[x]]

MapSet(m, k, v) == [x \in (DOMAIN m) \cup {k} |-> IF x = k THEN v ELSE m[x]]

\* the validity test of get with <= for <
EntryValidInclusive(entry, t) == t <= entry.expiresAt - SafetyBufferMs

\* the validity test of get: Date.now() < entry.expiresAt - 120000
EntryValid(entry, t) == t < entry.expiresAt - SafetyBufferMs

\* what get(accountId) returns at time t
CacheGetResult(c, a, t) ==
    IF a \notin DOMAIN c THEN NoToken
    ELSE IF EntryValid(c[a], t) THEN c[a].token
    ELSE NoToken

\* the cache after get(accountId) at time t: an expired entry is deleted
CacheAfterGet(c, a, t) ==
    IF a \in DOMAIN c /\ ~EntryValid(c[a], t) THEN MapDelete(c, a) ELSE c

\* a set that keeps an entry that is already there
CacheSetKeepFirst(c, a, tok, ttl, t) ==
    IF a \in DOMAIN c THEN c
    ELSE MapSet(c, a, [token |-> tok, expiresAt |-> t + ttl * MsPerSecond])

\* set(accountId, token, ttlSeconds) at time t
CacheSet(c, a, tok, ttl, t) ==
    MapSet(c, a, [token |-> tok, expiresAt |-> t + ttl * MsPerSecond])

\* a clear that empties the whole Map
CacheClearAll(c, a) == [x \in {} |-> NoToken]

\* clear(accountId)
CacheClear(c, a) == MapDelete(c, a)

(***************************************************************************)
(* Observation of the last step (ev) and of the last set per account       *)
(* (lastSet): they record what the operations were called with and what    *)
(* they returned, and are read by no operation.                            *)
(***************************************************************************)
NoEvent == [kind |-> "none"]

NoSet == [token |-> NoToken, at |-> 0, ttl |-> 0, by |-> "none"]

\* the clock: Date.now() grows between any two steps of the program
Tick(d) ==
    /\ ticks < MaxTicks
    /\ now' = now + d
    /\ ticks' = ticks + 1
    /\ ev' = NoEvent
    /\ UNCHANGED <<cache, lastSet, req, routeVars>>

\* tokenCache.get(a)
Get(a) ==
    /\ cache' = CacheAfterGet(cache, a, now)
    /\ ev' = [kind |-> "get", acct |-> a, result |-> CacheGetResult(cache, a, now),
              before |-> cache]
    /\ UNCHANGED <<now, ticks, lastSet, req, routeVars>>

\* tokenCache.set(a, tok, ttl)
Set(a, tok, ttl) ==
    /\ cache' = CacheSet(cache, a, tok, ttl, now)
    /\ lastSet' = [lastSet EXCEPT ![a] = [token |-> tok, at |-> now, ttl |-> ttl,
                                          by |-> "set"]]
    /\ ev' = [kind |-> "set", acct |-> a, before |-> cache]
    /\ UNCHANGED <<now, ticks, req, routeVars>>

\* tokenCache.clear(a)
Clear(a) ==
    /\ cache' = CacheClear(cache, a)
    /\ lastSet' = [lastSet EXCEPT ![a] = NoSet]
    /\ ev' = [kind |-> "clear", acct |-> a, before |-> cache]
    /\ UNCHANGED <<now, ticks, req, routeVars>>

(***************************************************************************)
(* Initial state: an empty cache, no request in flight.                    *)
(***************************************************************************)
EmptyMap == [x \in {} |-> NoSet]

Slots == {"r1", "r2"}

IdleReq ==
    [pc |-> "idle", op |-> "none", user |-> "none", acct |-> "none",
     token |-> NoToken, usedCached |-> FALSE, logins |-> 0, trades |-> 0,
     login |-> "none", status |-> 0, msg |-> "none"]

IdleClose ==
    [pc |-> "idle", hasVolume |-> FALSE, attempts |-> <<>>, primaryStatus |-> 0, status |-> 0,
     success |-> FALSE, msg |-> "none"]

IdlePlace ==
    [pc |-> "idle", kind |-> "none", symbol |-> <<>>, side |-> "none",
     orderType |-> "none", lots |-> 0, session |-> "none", sent |-> <<>>,
     answer |-> [kind |-> "none", status |-> 0,
                 body |-> [form |-> "empty", returnCode |-> 0, ReturnCode |-> 0]],
     status |-> 0, success |-> FALSE, placed |-> FALSE, msg |-> "none"]

IdleFilter ==
    [pc |-> "idle", variant |-> "none", filterZeroProfit |-> TRUE,
     allTrades |-> <<>>, closedPositions |-> <<>>]

IdleList ==
    [pc |-> "idle", variant |-> "none", filterZeroProfit |-> TRUE, sent |-> <<>>,
     answers |-> [c \in {"positions", "pendingOrders", "closedPositions"} |->
                     [kind |-> "none", status |-> 0, body |-> [t |-> "undefined"]]],
     status |-> 0, success |-> FALSE,
     result |-> [c \in {"positions", "pendingOrders", "closedPositions"} |->
                    [t |-> "array", items |-> <<>>]]]

\* no request at the gate
IdleGate ==
    [pc |-> "idle", op |-> "none", user |-> "", acct |-> "", password |-> "none",
     sent |-> <<>>, timeoutMs |-> 0, primaryStatus |-> 0, status |-> 0,
     msg |-> "none", disclosed |-> NoToken, cacheAtStart |-> EmptyMap]

\* const alerts = new Map(); let alertIdCounter = 1; no request handled yet
NoAlerts ==
    [alerts |-> <<>>, counter |-> 1, op |-> "none", status |-> 0]

IdleCloseAll ==
    [pc |-> "idle",
     listAnswer |-> [kind |-> "none", status |-> 0, body |-> [t |-> "undefined"]],
     subs |-> <<>>, status |-> 0, success |-> FALSE,
     closed |-> 0, failed |-> 0, total |-> 0, hasTotal |-> FALSE, msg |-> "none"]

Init ==
    /\ now = 0
    /\ ticks = 0
    /\ cache = EmptyMap
    /\ lastSet = [a \in Accounts |-> NoSet]
    /\ ev = NoEvent
    /\ req = [r \in Slots |-> IdleReq]
    /\ cp = IdleClose
    /\ po = IdlePlace
    /\ ft = IdleFilter
    /\ ls = IdleList
    /\ ca = IdleCloseAll
    /\ gw = IdleGate
    /\ al = NoAlerts

(***************************************************************************)
(* The gateway routes up to their first upstream trade request             *)
(* (src/src/routes/orders.ts, src/src/routes/positions.ts).  A request     *)
(* runs in a slot; its steps are the stretches of the handler between two  *)
(* awaits, so requests interleave exactly at the awaits.                   *)
(***************************************************************************)
\* POST /orders/market, POST /orders/pending, PUT /orders/pending/:orderId
OrderOps == {"market", "pending", "modifyPending"}

\* POST /positions/:id/close, POST /positions/close-all, GET /positions/:accountId
\* (positions.ts holds two variants of the listing route: "listV1" is the one
\* of lines 11-293, "list" the one of lines 307-541)
PositionOps == {"close", "closeAll", "list", "listV1"}

GatewayOps == OrderOps \cup PositionOps

\* the accounts the gateway requests name
GatewayAccounts == {"A1"}

\* how many validity windows may elapse in one behaviour of the gateway
MaxWindows == 1

\* the account store: prisma.mT5Account rows (userId, accountId, archived: false)
Owner == [a \in Accounts |-> IF a = "A1" THEN "U1" ELSE "U2"]

\* prisma.mT5Account.findFirst({ where: { userId, accountId, archived: false } })
AccountFound(u, a) == Owner[a] = u

\* the routes that read and write tokenCache: those of orders.ts
UsesCache(op) == op \in OrderOps

\* the login response bodies tried: the field names the routes look at
\* (data is data.accessToken)
NoBody ==
    [Token |-> NoToken, accessToken |-> NoToken, AccessToken |-> NoToken,
     token |-> NoToken, data |-> NoToken]

LoginBodies ==
    { NoBody,
      [NoBody EXCEPT !.Token = "t1"],
      [NoBody EXCEPT !.token = "t2"],
      [NoBody EXCEPT !.data = "t1"],
      [NoBody EXCEPT !.Token = "t2", !.AccessToken = "t1", !.token = "t1"],
      [NoBody EXCEPT !.accessToken = "t1", !.AccessToken = "t2"] }

\* what the upstream login can do: answer (status, JSON body), answer 2xx with a
\* body that is not JSON (json() throws), fail at the network (fetch throws),
\* or be aborted by the 8 s AbortController that only listV1 sets
LoginOutcomes ==
    [kind : {"http"}, status : {200, 401, 500}, body : LoginBodies]
        \cup [kind : {"badjson"}, status : {200}, body : {NoBody}]
        \cup [kind : {"neterr", "timeout"}, status : {0}, body : {NoBody}]

\* a test that takes every answered status for ok
IsOkAnyAnswer(status) == status >= 200

\* response.ok
IsOk(status) == status >= 200 /\ status <= 299

\* loginData?.Token || loginData?.accessToken || loginData?.AccessToken || loginData?.token || null
ExtractToken(body) ==
    IF body.Token # NoToken THEN body.Token
    ELSE IF body.accessToken # NoToken THEN body.accessToken
    ELSE IF body.AccessToken # NoToken THEN body.AccessToken
    ELSE body.token

\* listV1: loginData?.Token || loginData?.accessToken || loginData?.AccessToken
\*         || loginData?.data?.accessToken || null
ExtractTokenListV1(body) ==
    IF body.Token # NoToken THEN body.Token
    ELSE IF body.accessToken # NoToken THEN body.accessToken
    ELSE IF body.AccessToken # NoToken THEN body.AccessToken
    ELSE body.data

\* the accessToken a route takes from a login body
TokenOf(op, body) == IF op = "listV1" THEN ExtractTokenListV1(body) ELSE ExtractToken(body)

\* the field names a route looks at
RecognizedFields(op) ==
    IF op = "listV1" THEN {"Token", "accessToken", "AccessToken", "data"}
    ELSE {"Token", "accessToken", "AccessToken", "token"}

\* the statuses the upstream trading endpoints answer with
Statuses == {200, 204, 400, 401, 405, 415, 500}

\* what an upstream call can do: answer a status, or fail at the network
TradeOutcomes ==
    [kind : {"http"}, status : {200, 401, 500}] \cup {[kind |-> "neterr", status |-> 0]}

\* the time a token set with the default ttl is handed out for
ValidityWindowMs == DefaultTtlSeconds * MsPerSecond - SafetyBufferMs

\* observation: whether the login that was answered with o gave a token (a 2xx
\* answer whose JSON body has one of the four fields), as the caller of the
\* upstream would describe it
LoginSeen(op, o) ==
    IF /\ o.kind = "http"
       /\ o.status \in 200..299
       /\ \E f \in RecognizedFields(op) : o.body[f] \in Tokens
    THEN "ok" ELSE "failed"

\* the handler sends its reply and returns
Reply(r, status, msg) ==
    [req[r] EXCEPT !.pc = "done", !.status = status, !.msg = msg]

\* a validity window of a default-ttl token elapses
Elapse ==
    /\ ticks < MaxWindows
    /\ Tick(ValidityWindowMs)

\* a request arrives: authenticateToken has set req.user, the body or the
\* path names the account; the handler runs to its first await, the lookup
Start(r, op, u, a) ==
    /\ req[r].pc = "idle"
    /\ req' = [req EXCEPT ![r] = [IdleReq EXCEPT !.pc = "lookup", !.op = op,
                                                 !.user = u, !.acct = a]]
    /\ ev' = NoEvent
    /\ UNCHANGED <<now, ticks, cache, lastSet, routeVars>>

\* the lookup returns no row: 404
LookupMiss(r) ==
    /\ req[r].pc = "lookup"
    /\ ~AccountFound(req[r].user, req[r].acct)
    /\ req' = [req EXCEPT ![r] =
                  IF req[r].op = "listV1"
                  THEN Reply(r, 404, "Account not found or password not configured")
                  ELSE Reply(r, 404, "MT5 account not found")]
    /\ ev' = NoEvent
    /\ UNCHANGED <<now, ticks, cache, lastSet, routeVars>>

\* the lookup returns the row; an order route asks tokenCache.get and, with a
\* token, sends its order request
LookupCached(r) ==
    /\ req[r].pc = "lookup"
    /\ AccountFound(req[r].user, req[r].acct)
    /\ UsesCache(req[r].op)
    /\ CacheGetResult(cache, req[r].acct, now) # NoToken
    /\ cache' = CacheAfterGet(cache, req[r].acct, now)
    /\ req' = [req EXCEPT ![r].pc = "trade",
                          ![r].token = CacheGetResult(cache, req[r].acct, now),
                          ![r].usedCached = TRUE,
                          ![r].trades = 1]
    /\ ev' = NoEvent
    /\ UNCHANGED <<now, ticks, lastSet, routeVars>>

\* the lookup returns the row and there is no token to use (an order route
\* whose tokenCache.get returned null, or a position route, which never asks):
\* the login request is sent
LookupLogin(r) ==
    /\ req[r].pc = "lookup"
    /\ AccountFound(req[r].user, req[r].acct)
    /\ UsesCache(req[r].op) => CacheGetResult(cache, req[r].acct, now) = NoToken
    /\ cache' = IF UsesCache(req[r].op) THEN CacheAfterGet(cache, req[r].acct, now)
                ELSE cache
    /\ req' = [req EXCEPT ![r].pc = "login", ![r].logins = 1]
    /\ ev' = NoEvent
    /\ UNCHANGED <<now, ticks, lastSet, routeVars>>

\* the login answers 2xx with a token: an order route stores it; the first
\* upstream trade request is sent
LoginOk(r, o) ==
    /\ req[r].pc = "login"
    /\ o.kind = "http" /\ IsOk(o.status) /\ TokenOf(req[r].op, o.body) # NoToken
    /\ cache' = IF UsesCache(req[r].op)
                THEN CacheSet(cache, req[r].acct, TokenOf(req[r].op, o.body), DefaultTtlSeconds, now)
                ELSE cache
    /\ lastSet' = IF UsesCache(req[r].op)
                  THEN [lastSet EXCEPT ![req[r].acct] =
                           [token |-> TokenOf(req[r].op, o.body), at |-> now,
                            ttl |-> DefaultTtlSeconds, by |-> r]]
                  ELSE lastSet
    /\ req' = [req EXCEPT ![r].pc = "trade", ![r].token = TokenOf(req[r].op, o.body),
                          ![r].login = LoginSeen(req[r].op, o), ![r].trades = 1]
    /\ ev' = NoEvent
    /\ UNCHANGED <<now, ticks, routeVars>>

\* the login answers non-2xx, or 2xx without a token: accessToken stays null, 401
LoginRejected(r, o) ==
    /\ req[r].pc = "login"
    /\ o.kind = "http" /\ ~(IsOk(o.status) /\ TokenOf(req[r].op, o.body) # NoToken)
    /\ req' = [req EXCEPT ![r] =
                  [(IF req[r].op # "listV1"
                    THEN Reply(r, 401, "Failed to authenticate with MetaAPI")
                    ELSE IF ~IsOk(o.status)
                    THEN Reply(r, o.status, "Failed to authenticate with MetaAPI")
                    ELSE Reply(r, 401, "No access token received from MetaAPI"))
                   EXCEPT !.login = LoginSeen(req[r].op, o)]]
    /\ ev' = NoEvent
    /\ UNCHANGED <<now, ticks, cache, lastSet, routeVars>>

\* fetch or json() throws: the catch around the login answers 500 (listV1:
\* 504 when the throw is the abort of its timeout)
LoginThrows(r, o) ==
    /\ req[r].pc = "login"
    /\ o.kind \in {"neterr", "badjson", "timeout"}
    /\ o.kind = "timeout" => req[r].op = "listV1"
    /\ req' = [req EXCEPT ![r] =
                  [(IF req[r].op # "listV1"
                    THEN Reply(r, 500, "Failed to authenticate with MetaAPI")
                    ELSE IF o.kind = "timeout"
                    THEN Reply(r, 504, "MT5 login timeout")
                    ELSE Reply(r, 500, "MT5 login error"))
                   EXCEPT !.login = LoginSeen(req[r].op, o)]]
    /\ ev' = NoEvent
    /\ UNCHANGED <<now, ticks, cache, lastSet, routeVars>>

\* the first upstream trade request is answered.  An order route replies: 200
\* on 2xx, the upstream status otherwise, 500 when fetch throws; nothing is
\* done to tokenCache on any answer.  (What a position route does from here
\* is SpecClose's part.)
TradeAnswered(r, o) ==
    /\ req[r].pc = "trade"
    /\ req' = [req EXCEPT ![r] =
                  IF o.kind = "neterr" THEN Reply(r, 500, "upstream")
                  ELSE IF IsOk(o.status) THEN Reply(r, 200, "upstream")
                  ELSE Reply(r, o.status, "upstream")]
    /\ ev' = NoEvent
    /\ UNCHANGED <<now, ticks, cache, lastSet, routeVars>>

\* the slot is free for the next request
Finish(r) ==
    /\ req[r].pc = "done"
    /\ req' = [req EXCEPT ![r] = IdleReq]
    /\ ev' = NoEvent
    /\ UNCHANGED <<now, ticks, cache, lastSet, routeVars>>

Next ==
    \/ Elapse
    \/ \E r \in Slots, op \in GatewayOps, u \in Users, a \in GatewayAccounts : Start(r, op, u, a)
    \/ \E r \in Slots : LookupMiss(r)
    \/ \E r \in Slots : LookupCached(r)
    \/ \E r \in Slots : LookupLogin(r)
    \/ \E r \in Slots, o \in LoginOutcomes : LoginOk(r, o)
    \/ \E r \in Slots, o \in LoginOutcomes : LoginRejected(r, o)
    \/ \E r \in Slots, o \in LoginOutcomes : LoginThrows(r, o)
    \/ \E r \in Slots, o \in TradeOutcomes : TradeAnswered(r, o)
    \/ \E r \in Slots : Finish(r)

Spec == Init /\ [][Next]_vars

(***************************************************************************)
(* POST /api/positions/:positionId/close, from the first upstream close    *)
(* request on (src/src/routes/positions.ts, lines 830-905): the request    *)
(* passed validation, the account was found and the login gave a token.    *)
(***************************************************************************)
\* what an upstream close attempt can do: answer a status with a body that
\* asserts success:false / Success:false or does not; be aborted by the
\* attempt's 3 s AbortController; fail at the network
AttemptOutcomes ==
    [kind : {"http"}, status : Statuses, bodyFail : BOOLEAN]
        \cup {[kind |-> "timeout", status |-> 0, bodyFail |-> FALSE],
              [kind |-> "neterr", status |-> 0, bodyFail |-> FALSE]}

\* the request of an attempt: the primary is DELETE client/position/{id} with
\* ?volume= when hasVolume; fallback1 is POST client/position/close with the
\* body { positionId } and volume when hasVolume
AttemptRequest(step, hasVolume) ==
    IF step = "primary"
    THEN [method |-> "DELETE", path |-> "client/position/{id}",
          fields |-> IF hasVolume THEN {"?volume"} ELSE {}]
    ELSE [method |-> "POST", path |-> "client/position/close",
          fields |-> IF hasVolume THEN {"positionId", "volume"} ELSE {"positionId"}]

\* an attempt that was sent and is not answered yet
Pending(step, hasVolume) ==
    [step |-> step, request |-> AttemptRequest(step, hasVolume),
     kind |-> "pending", status |-> 0, bodyFail |-> FALSE]

\* the last attempt of the log, answered by o
AnswerLast(attempts, o) ==
    [attempts EXCEPT ![Len(attempts)].kind = o.kind,
                     ![Len(attempts)].status = o.status,
                     ![Len(attempts)].bodyFail = o.bodyFail]

\* an acceptance test that fails on every status
IsAcceptedNever(status) == FALSE

\* primaryResponse.ok || primaryResponse.status === 204 (and the same test on
\* fallback1Response): the body is not read
IsAccepted(status) == IsOk(status) \/ status = 204

\* a fallback test that holds of every error status
IsFallbackStatusAnyError(status) == status >= 400

\* primaryResponse.status === 415 || primaryResponse.status === 405
IsFallbackStatus(status) == status = 415 \/ status = 405

\* res.json({ success: true, message: 'Position closed successfully' })
CloseSucceeded(c, o) ==
    [c EXCEPT !.pc = "done", !.attempts = AnswerLast(c.attempts, o),
              !.status = 200, !.success = TRUE, !.msg = "Position closed successfully"]

\* the catch around the attempts: fetch threw (abort or network), 500
CloseThrew(c, o) ==
    [c EXCEPT !.pc = "done", !.attempts = AnswerLast(c.attempts, o),
              !.status = 500, !.success = FALSE, !.msg = "Failed to close position"]

\* "Return error immediately": the status and the text of primaryResponse
CloseFailed(c, o) ==
    [c EXCEPT !.pc = "done", !.attempts = AnswerLast(c.attempts, o),
              !.status = c.primaryStatus, !.success = FALSE, !.msg = "primary"]

\* the DELETE {API_BASE}/client/position/{id} request is sent
CloseSendPrimary(hasVolume) ==
    /\ cp.pc = "idle"
    /\ cp' = [cp EXCEPT !.pc = "primary", !.hasVolume = hasVolume,
                        !.attempts = <<Pending("primary", hasVolume)>>]
    /\ UNCHANGED <<sessionVars, gateVars, alertVars, placeVars, listVars, closeAllVars>>

\* the DELETE is answered, aborted or fails
ClosePrimaryAnswered(o) ==
    /\ cp.pc = "primary"
    /\ cp' = IF o.kind # "http" THEN CloseThrew(cp, o)
             ELSE IF IsAccepted(o.status) THEN CloseSucceeded(cp, o)
             ELSE IF IsFallbackStatus(o.status)
                  THEN [cp EXCEPT !.pc = "fallback1", !.primaryStatus = o.status,
                                  !.attempts = Append(AnswerLast(cp.attempts, o),
                                                      Pending("fallback1", cp.hasVolume))]
             ELSE CloseFailed([cp EXCEPT !.primaryStatus = o.status], o)
    /\ UNCHANGED <<sessionVars, gateVars, alertVars, placeVars, listVars, closeAllVars>>

\* the POST {API_BASE}/client/position/close is answered, aborted or fails
CloseFallback1Answered(o) ==
    /\ cp.pc = "fallback1"
    /\ cp' = IF o.kind # "http" THEN CloseThrew(cp, o)
             ELSE IF IsAccepted(o.status) THEN CloseSucceeded(cp, o)
             ELSE CloseFailed(cp, o)
    /\ UNCHANGED <<sessionVars, gateVars, alertVars, placeVars, listVars, closeAllVars>>

\* the next close request
CloseAgain ==
    /\ cp.pc = "done"
    /\ cp' = IdleClose
    /\ UNCHANGED <<sessionVars, gateVars, alertVars, placeVars, listVars, closeAllVars>>

NextClose ==
    \/ \E hasVolume \in BOOLEAN : CloseSendPrimary(hasVolume)
    \/ \E o \in AttemptOutcomes : ClosePrimaryAnswered(o)
    \/ \E o \in AttemptOutcomes : CloseFallback1Answered(o)
    \/ CloseAgain

SpecClose == Init /\ [][NextClose]_vars

NextCache ==
    \/ \E d \in TickSteps : Tick(d)
    \/ \E a \in Accounts : Get(a)
    \/ \E a \in Accounts, tok \in Tokens, ttl \in TtlChoices : Set(a, tok, ttl)
    \/ \E a \in Accounts : Clear(a)

SpecCache == Init /\ [][NextCache]_vars

(***************************************************************************)
(* Order placement: POST /api/orders/market and POST /api/orders/pending.  *)
(* A symbol is the sequence of its characters.  A volume in lots is a      *)
(* whole number of 1/LotUnit lots; a volume sent upstream is a whole       *)
(* number of 1/ToFixedUnit (the four decimals toFixed(4) keeps).           *)
(***************************************************************************)
\* precision of the lots a caller may ask for: lots are counted in 1/LotUnit
LotUnit == 100000

\* getPendingOrderVolume: the factor of the crypto branch
CryptoFactor == 100
\* getPendingOrderVolume: the divisor of the other branch
PendingDivisor == 10
\* getPendingOrderVolume: toFixed(4) keeps 1/10000
ToFixedUnit == 10000
\* router.post('/market'): the factor of volumeInUnits
MarketFactor == 100
\* the upstream return code "Request Placed"
RequestPlaced == 10012
BTC == <<"B", "T", "C">>
ETH == <<"E", "T", "H">>

Symbols ==
    { <<"B", "T", "C", "U", "S", "D">>,
      <<"e", "t", "h", "u", "s", "d">>,
      <<"E", "U", "R", "U", "S", "D">>,
      <<"X", "A", "U", "/", "U", "S", "D">>,
      <<>> }

Sides == {"buy", "sell", "hold", ""}

OrderTypes == {"limit", "stop", "market", ""}

\* 0 stands for a volume that is missing or zero
LotChoices == {0, 55, 1000, 1234, 2500, 100000}

LowerToUpper ==
    [b |-> "B", t |-> "T", c |-> "C", e |-> "E", h |-> "H", u |-> "U",
     s |-> "S", d |-> "D"]

toUpperCase(str) ==
    [i \in 1..Len(str) |->
        IF str[i] \in DOMAIN LowerToUpper THEN LowerToUpper[str[i]] ELSE str[i]]

includes(str, sub) ==
    \E i \in 1..(Len(str) - Len(sub) + 1) :
        \A j \in 1..Len(sub) : str[i + j - 1] = sub[j]

\* String.prototype.replace('/', ''): the first '/' is removed
replaceSlash(str) ==
    IF \E i \in 1..Len(str) : str[i] = "/"
    THEN LET i == CHOOSE k \in 1..Len(str) :
                    /\ str[k] = "/"
                    /\ \A m \in 1..(k - 1) : str[m] # "/"
         IN  SubSeq(str, 1, i - 1) \o SubSeq(str, i + 1, Len(str))
    ELSE str

\* the whole number nearest to n / d, a half going up (n >= 0, d > 0):
\* Math.round, and the rounding of toFixed
RoundHalfUp(n, d) == (2 * n + d) \div (2 * d)

PendingVolumeAlwaysTimes100(symbol, lots) ==
    RoundHalfUp(lots * CryptoFactor, LotUnit) * ToFixedUnit

getPendingOrderVolume(symbol, lots) ==
    LET sym == toUpperCase(symbol)
    IN  IF includes(sym, BTC) \/ includes(sym, ETH)
        THEN RoundHalfUp(lots * CryptoFactor, LotUnit) * ToFixedUnit
        ELSE RoundHalfUp(lots * ToFixedUnit, PendingDivisor * LotUnit)

MarketVolumeDividedBy10(lots) == RoundHalfUp(lots * ToFixedUnit, PendingDivisor * LotUnit)

\* router.post('/market'): Math.round(parseFloat(volume) * 100)
volumeInUnits(lots) == RoundHalfUp(lots * MarketFactor, LotUnit) * ToFixedUnit

PlaceKinds == {"market", "pending"}

tradePathAlwaysBuy(side) == "trade"

\* router.post('/market'): side === 'sell' ? 'trade-sell' : 'trade'
tradePath(side) == IF side = "sell" THEN "trade-sell" ELSE "trade"

\* router.post('/pending'): the numeric type of (side, orderType), 0 when the
\* chain of tests ends in its else
OrderTypeCode(side, orderType) ==
    IF side = "buy" /\ orderType = "limit" THEN 2
    ELSE IF side = "sell" /\ orderType = "limit" THEN 3
    ELSE IF side = "buy" /\ orderType = "stop" THEN 4
    ELSE IF side = "sell" /\ orderType = "stop" THEN 5
    ELSE 0

endpointMap ==
    [type \in 2..5 |->
        CASE type = 2 -> "buy-limit" [] type = 3 -> "sell-limit"
          [] type = 4 -> "buy-stop" [] type = 5 -> "sell-stop"]

MarketFields == {"symbol", "volume", "price", "stopLoss", "takeProfit", "comment"}

PendingFields ==
    {"Symbol", "Price", "Volume", "StopLoss", "TakeProfit", "Expiration", "Comment"}

\* the upstream order request a placement sends once it holds a token
OrderRequest(kind, symbol, side, orderType, lots) ==
    IF kind = "market"
    THEN [method |-> "POST", path |-> tradePath(side), fields |-> MarketFields,
          symbol |-> replaceSlash(symbol), volume |-> volumeInUnits(lots),
          comment |-> IF side = "sell" THEN "Sell" ELSE "Buy"]
    ELSE [method |-> "POST", path |-> endpointMap[OrderTypeCode(side, orderType)],
          fields |-> PendingFields,
          symbol |-> symbol, volume |-> getPendingOrderVolume(symbol, lots),
          comment |-> ""]

\* what the inputs of a placement fail on, "ok" when they pass
Validate(kind, symbol, side, orderType, lots, hasPrice) ==
    IF \/ symbol = <<>> \/ side = "" \/ lots = 0
       \/ kind = "pending" /\ (~hasPrice \/ orderType = "")
    THEN "Missing required fields"
    ELSE IF side # "buy" /\ side # "sell"
    THEN "Invalid side"
    ELSE IF kind = "pending" /\ OrderTypeCode(side, orderType) = 0
    THEN "Invalid orderType"
    ELSE "ok"

\* how the session part of a placement ends: no account of the caller, a
\* cached token, a login that gives a token, a login that gives none, a
\* login that throws
SessionOutcomes == {"notfound", "cached", "login", "notoken", "throws"}

\* the values of returnCode / ReturnCode in a JSON answer: 0 when the field
\* is absent or zero, MT5's 10009, MT5's 10012
ReturnCodes == {0, 10009, RequestPlaced}

NoOrderBody == [form |-> "empty", returnCode |-> 0, ReturnCode |-> 0]

\* the body of an answer to an order request: JSON, text that is no JSON,
\* nothing
OrderBodies ==
    [form : {"json"}, returnCode : ReturnCodes, ReturnCode : ReturnCodes]
        \cup {NoOrderBody, [form |-> "text", returnCode |-> 0, ReturnCode |-> 0]}

OrderStatuses == {200, 201, 400, 500}

OrderOutcomes ==
    [kind : {"http"}, status : OrderStatuses, body : OrderBodies]
        \cup {[kind |-> "neterr", status |-> 0, body |-> NoOrderBody]}

\* orderData?.returnCode || orderData?.ReturnCode
returnCodeOf(body) == IF body.returnCode # 0 THEN body.returnCode ELSE body.ReturnCode

PlaceReply(status, success, placed, msg) ==
    [status |-> status, success |-> success, placed |-> placed, msg |-> msg]

\* the part of both routes after the body is parsed
ParsedReply(o, code) ==
    IF ~IsOk(o.status)
    THEN IF code = RequestPlaced
         THEN PlaceReply(200, TRUE, TRUE, "Order initiated. Processing on server.")
         ELSE PlaceReply(o.status, FALSE, FALSE, "order failed")
    ELSE PlaceReply(200, TRUE, FALSE, "none")

\* router.post('/market'): orderResponse.json(), and in its catch
\* orderResponse.text() on the body json() has consumed, which throws into
\* the catch around the request
MarketReply(o) ==
    IF o.kind # "http" \/ o.body.form # "json"
    THEN PlaceReply(500, FALSE, FALSE, "Failed to place market order")
    ELSE ParsedReply(o, returnCodeOf(o.body))

\* router.post('/pending'): orderResponse.text(), then JSON.parse
PendingReply(o) ==
    IF o.kind # "http"
    THEN PlaceReply(500, FALSE, FALSE, "Failed to place pending order")
    ELSE IF o.body.form = "empty" /\ IsOk(o.status)
    THEN PlaceReply(200, TRUE, FALSE, "none")
    ELSE IF o.body.form # "json"
    THEN ParsedReply(o, 0)
    ELSE ParsedReply(o, returnCodeOf(o.body))

PlaceDone(p, reply) ==
    po' = [p EXCEPT !.pc = "done", !.status = reply.status,
                    !.success = reply.success, !.placed = reply.placed,
                    !.msg = reply.msg]

\* the handler from its start to the account lookup
PlaceStart(kind, symbol, side, orderType, lots, hasPrice) ==
    /\ po.pc = "idle"
    /\ LET v == Validate(kind, symbol, side, orderType, lots, hasPrice)
           p == [po EXCEPT !.kind = kind, !.symbol = symbol, !.side = side,
                           !.orderType = orderType, !.lots = lots]
       IN  IF v = "ok"
           THEN po' = [p EXCEPT !.pc = "lookup"]
           ELSE po' = [p EXCEPT !.pc = "done", !.status = 400, !.msg = v]
    /\ UNCHANGED <<sessionVars, gateVars, alertVars, chainVars, listVars, closeAllVars>>

\* the handler from the account lookup to the sending of the order request
PlaceSession(s) ==
    /\ po.pc = "lookup"
    /\ LET p == [po EXCEPT !.session = s]
       IN  CASE s = "notfound" ->
                  PlaceDone(p, PlaceReply(404, FALSE, FALSE, "MT5 account not found"))
             [] s = "throws" ->
                  PlaceDone(p, PlaceReply(500, FALSE, FALSE,
                                          "Failed to authenticate with MetaAPI"))
             [] s = "notoken" ->
                  PlaceDone(p, PlaceReply(401, FALSE, FALSE,
                                          "Failed to authenticate with MetaAPI"))
             [] OTHER ->
                  po' = [p EXCEPT !.pc = "sent",
                            !.sent = Append(@, OrderRequest(po.kind, po.symbol, po.side,
                                                            po.orderType, po.lots))]
    /\ UNCHANGED <<sessionVars, gateVars, alertVars, chainVars, listVars, closeAllVars>>

\* the handler from the answer to the order request to the reply
PlaceAnswered(o) ==
    /\ po.pc = "sent"
    /\ LET reply == IF po.kind = "market" THEN MarketReply(o) ELSE PendingReply(o)
       IN  PlaceDone([po EXCEPT !.answer = o], reply)
    /\ UNCHANGED <<sessionVars, gateVars, alertVars, chainVars, listVars, closeAllVars>>

PlaceAgain ==
    /\ po.pc = "done"
    /\ po' = IdlePlace
    /\ UNCHANGED <<sessionVars, gateVars, alertVars, chainVars, listVars, closeAllVars>>

NextPlace ==
    \/ \E kind \in PlaceKinds, symbol \in Symbols, side \in Sides,
          orderType \in OrderTypes, lots \in LotChoices, hasPrice \in BOOLEAN :
            PlaceStart(kind, symbol, side, orderType, lots, hasPrice)
    \/ \E s \in SessionOutcomes : PlaceSession(s)
    \/ \E o \in OrderOutcomes : PlaceAnswered(o)
    \/ PlaceAgain

SpecPlace == Init /\ [][NextPlace]_vars

(***************************************************************************)
(* The closed-trade filter of GET /api/positions/:accountId.  A raw trade  *)
(* is a function from its field names to JavaScript values; a field the    *)
(* record does not have (or has as null) is not in its domain.             *)
(***************************************************************************)
\* JavaScript values: a number, NaN or what converts to it, Infinity, a
\* string (the sequence of its characters)
Num(n) == [k |-> "num", n |-> n]

NaNValue == [k |-> "nan"]

InfValue == [k |-> "inf"]

Str(chars) == [k |-> "str", s |-> chars]

\* a ?? b ?? ... ?? default over the fields names of record
Coalesce(record, names, default) ==
    IF \E i \in 1..Len(names) : names[i] \in DOMAIN record
    THEN LET i == CHOOSE k \in 1..Len(names) :
                    /\ names[k] \in DOMAIN record
                    /\ \A m \in 1..(k - 1) : names[m] \notin DOMAIN record
         IN  record[names[i]]
    ELSE default

Truthy(v) ==
    CASE v.k = "num" -> v.n # 0
      [] v.k = "nan" -> FALSE
      [] v.k = "str" -> v.s # <<>>
      [] OTHER -> TRUE

\* a || b || ... || default over the fields names of record
FirstTruthy(record, names, default) ==
    IF \E i \in 1..Len(names) : names[i] \in DOMAIN record /\ Truthy(record[names[i]])
    THEN LET i == CHOOSE k \in 1..Len(names) :
                    /\ names[k] \in DOMAIN record /\ Truthy(record[names[k]])
                    /\ \A m \in 1..(k - 1) :
                          ~(names[m] \in DOMAIN record /\ Truthy(record[names[m]]))
         IN  record[names[i]]
    ELSE default

\* String.prototype.trim on a sequence of characters
RECURSIVE trim(_)
trim(chars) ==
    IF chars = <<>> THEN chars
    ELSE IF Head(chars) = " " THEN trim(Tail(chars))
    ELSE IF chars[Len(chars)] = " " THEN trim(SubSeq(chars, 1, Len(chars) - 1))
    ELSE chars

\* Number(v) > 0 && !isNaN(Number(v))
PositiveNumber(v) == (v.k = "num" /\ v.n > 0) \/ v.k = "inf"

\* Number.isFinite(Number(v)) && Number(v) !== 0
FiniteNonZero(v) == v.k = "num" /\ v.n # 0

IdNames == <<"OrderId", "orderId", "DealId", "dealId">>

SymbolNames == <<"Symbol", "symbol">>

PriceNamesV1 == <<"Price", "price", "ClosePrice", "closePrice", "PriceClose", "priceClose">>

PriceNamesV2 == PriceNamesV1 \o <<"OpenPrice", "openPrice">>

VolumeNames == <<"VolumeLots", "volumeLots", "Volume", "volume">>

ProfitNames == <<"Profit", "profit", "PnL", "pnl">>

hasValidOrderId(trade) == PositiveNumber(Coalesce(trade, IdNames, Num(0)))

hasValidSymbol(trade) == trim(FirstTruthy(trade, SymbolNames, Str(<<>>)).s) # <<>>

hasValidPrice(trade, names) == PositiveNumber(Coalesce(trade, names, Num(0)))

hasValidVolume(trade) == PositiveNumber(Coalesce(trade, VolumeNames, Num(0)))

hasNonZeroProfitAlways(trade) == TRUE

hasNonZeroProfit(trade) == FiniteNonZero(Coalesce(trade, ProfitNames, Num(0)))

\* first variant: the zero-profit filter when the environment leaves it
\* on, then the validity filter
keepsV1(trade, filterZeroProfit) ==
    /\ filterZeroProfit => hasNonZeroProfit(trade)
    /\ hasValidOrderId(trade) /\ hasValidSymbol(trade)
    /\ hasValidPrice(trade, PriceNamesV1) /\ hasValidVolume(trade)

\* the settings of TRADE_HISTORY_FILTER_ZERO_PROFIT a variant can see: the
\* second variant does not read it
FilterSettings(variant) == IF variant = "v1" THEN BOOLEAN ELSE {TRUE}

\* second variant: one filter of five tests
keepsV2(trade) ==
    /\ hasValidOrderId(trade) /\ hasValidSymbol(trade)
    /\ hasValidPrice(trade, PriceNamesV2) /\ hasValidVolume(trade)
    /\ hasNonZeroProfit(trade)

Variants == {"v1", "v2"}

keeps(variant, filterZeroProfit, trade) ==
    IF variant = "v1" THEN keepsV1(trade, filterZeroProfit) ELSE keepsV2(trade)

filterTrades(variant, filterZeroProfit, allTrades) ==
    SelectSeq(allTrades, LAMBDA trade : keeps(variant, filterZeroProfit, trade))

\* raw trades: one choice for each group of fields, merged
NoFields == [x \in {} |-> Num(0)]

IdParts ==
    { NoFields, "orderId" :> Num(5), "OrderId" :> NaNValue,
      "OrderId" :> Num(7), "OrderId" :> Num(0), "DealId" :> Num(5), "DealId" :> Num(0),
      ("OrderId" :> Num(0)) @@ ("DealId" :> Num(5)),
      ("OrderId" :> Num(7)) @@ ("DealId" :> Num(0)) }

EURUSD == <<"E", "U", "R", "U", "S", "D">>

SymbolParts ==
    { NoFields, "Symbol" :> Str(EURUSD), "symbol" :> Str(EURUSD),
      "Symbol" :> Str(<<" ", " ">>) }

PriceParts ==
    { NoFields, "Price" :> Num(2), "Price" :> Num(0), "Price" :> InfValue,
      "OpenPrice" :> Num(2) }

VolumeParts ==
    { NoFields, "Volume" :> Num(1), "VolumeLots" :> Num(1), "Volume" :> NaNValue }

ProfitParts ==
    { NoFields, "Profit" :> Num(5), "Profit" :> Num(0), "Profit" :> Num(-3),
      "Profit" :> NaNValue }

RawTrades ==
    { id @@ sym @@ price @@ vol @@ profit :
        id \in IdParts, sym \in SymbolParts, price \in PriceParts,
        vol \in VolumeParts, profit \in ProfitParts }

\* the listing from the unwrapped trades of an ok history answer to its
\* closedPositions, on a history of one trade
FilterClosedTrades(variant, filterZeroProfit, trade) ==
    /\ ft.pc = "idle"
    /\ ft' = [pc |-> "done", variant |-> variant, filterZeroProfit |-> filterZeroProfit,
              allTrades |-> <<trade>>,
              closedPositions |-> filterTrades(variant, filterZeroProfit, <<trade>>)]
    /\ UNCHANGED <<sessionVars, gateVars, alertVars, chainVars, placeVars, ls, closeAllVars>>

FilterAgain ==
    /\ ft.pc = "done"
    /\ ft' = IdleFilter
    /\ UNCHANGED <<sessionVars, gateVars, alertVars, chainVars, placeVars, ls, closeAllVars>>

NextFilter ==
    \/ \E variant \in Variants, trade \in RawTrades :
          \E filterZeroProfit \in FilterSettings(variant) :
              FilterClosedTrades(variant, filterZeroProfit, trade)
    \/ FilterAgain

SpecFilter == Init /\ [][NextFilter]_vars

(***************************************************************************)
(* GET /api/positions/:accountId after its session part: three upstream   *)
(* fetches (open positions, pending orders, closed-trade history) and the  *)
(* reply.  The first variant of the route starts the three fetches in one  *)
(* Promise.allSettled; the second awaits each fetch before the next.       *)
(***************************************************************************)
\* JSON values of a response body, and a body that is no JSON
Arr(items) == [t |-> "array", items |-> items]

Obj(fields) == [t |-> "object", fields |-> fields]

Undefined == [t |-> "undefined"]

Unreadable == [t |-> "text"]

Categories == <<"positions", "pendingOrders", "closedPositions">>

CategorySet == {Categories[i] : i \in 1..Len(Categories)}

\* body?.name
FieldOf(body, name) ==
    IF body.t = "object" /\ name \in DOMAIN body.fields THEN body.fields[name] ELSE Undefined

\* arrays and objects are truthy
TruthyJson(v) == v.t \in {"array", "object"}

\* body?.a || body?.b || ... || last
OrChain(body, names, last) ==
    IF \E i \in 1..Len(names) : TruthyJson(FieldOf(body, names[i]))
    THEN LET i == CHOOSE k \in 1..Len(names) :
                    /\ TruthyJson(FieldOf(body, names[k]))
                    /\ \A m \in 1..(k - 1) : ~TruthyJson(FieldOf(body, names[m]))
         IN  FieldOf(body, names[i])
    ELSE last

PositionNamesV1 == <<"positions", "Positions", "data", "Data">>

OrderNamesV1 == <<"orders", "Orders", "data", "Data">>

PositionNamesV2 == <<"positions", "data">>

OrderNamesV2 == <<"orders", "data">>

HistoryNamesV1 ==
    <<"Items", "Data", "data", "trades", "Trades", "items", "results", "Results",
      "closedTrades", "ClosedTrades", "tradeHistory", "TradeHistory">>

HistoryNamesV2 ==
    <<"Items", "Data", "data", "trades", "items", "results", "Results", "Trades",
      "closedTrades", "ClosedTrades", "tradeHistory", "TradeHistory">>

\* positions and pendingOrders of an ok answer whose body is JSON
Unwrap(variant, category, body) ==
    IF variant = "v1"
    THEN OrChain(body, IF category = "positions" THEN PositionNamesV1 ELSE OrderNamesV1,
                 Arr(<<>>))
    ELSE OrChain(body, IF category = "positions" THEN PositionNamesV2 ELSE OrderNamesV2,
                 IF TruthyJson(body) THEN body ELSE Arr(<<>>))

\* allTrades of an ok history answer whose body is JSON
UnwrapTrades(variant, body) ==
    IF body.t = "array" THEN body
    ELSE IF body.t = "object"
    THEN OrChain(body, IF variant = "v1" THEN HistoryNamesV1 ELSE HistoryNamesV2, Arr(<<>>))
    ELSE Arr(<<>>)

GoodTrade ==
    ("OrderId" :> Num(7)) @@ ("Symbol" :> Str(EURUSD)) @@ ("Price" :> Num(2))
        @@ ("Volume" :> Num(1)) @@ ("Profit" :> Num(5))

FlatTrade == ("Profit" :> Num(0)) @@ GoodTrade

PositionBodies(names) ==
    { Unreadable,
      Arr(<<"p1">>),
      Obj(names[1] :> Arr(<<"p1", "p2">>)),
      Obj(names[2] :> Arr(<<"p1">>)),
      Obj("data" :> Arr(<<"p1">>)),
      Obj("result" :> Arr(<<"p1">>)),
      Obj((names[1] :> Obj("count" :> Arr(<<>>))) @@ ("data" :> Arr(<<"p1">>))) }

HistoryBodies ==
    { Unreadable,
      Arr(<<GoodTrade, FlatTrade>>),
      Obj("Items" :> Arr(<<GoodTrade>>)),
      Obj("trades" :> Arr(<<FlatTrade, GoodTrade>>)),
      Obj("page" :> Arr(<<GoodTrade>>)),
      Obj("Items" :> Obj("count" :> Arr(<<>>))) }

BodiesOf(category) ==
    CASE category = "positions" -> PositionBodies(PositionNamesV1)
      [] category = "pendingOrders" -> PositionBodies(OrderNamesV1)
      [] OTHER -> HistoryBodies

NoAnswer == [kind |-> "none", status |-> 0, body |-> Undefined]

\* how a fetch ends: rejected, a status that is not ok, an ok status with a body
FetchOutcomes(category) ==
    { [kind |-> "rejected", status |-> 0, body |-> Undefined],
      [kind |-> "http", status |-> 500, body |-> Unreadable] }
        \cup [kind : {"http"}, status : {200}, body : BodiesOf(category)]

\* what processing one answer does to its category: the value of the
\* category, or a throw (of json() on a body that is no JSON, of .filter on
\* trades that are no array)
Processed(variant, filterZeroProfit, category, o) ==
    IF o.kind # "http" \/ ~IsOk(o.status)
    THEN [threw |-> FALSE, value |-> Arr(<<>>)]
    ELSE IF o.body = Unreadable
    THEN [threw |-> TRUE, value |-> Arr(<<>>)]
    ELSE IF category # "closedPositions"
    THEN [threw |-> FALSE, value |-> Unwrap(variant, category, o.body)]
    ELSE LET allTrades == UnwrapTrades(variant, o.body)
         IN  IF allTrades.t # "array"
             THEN [threw |-> TRUE, value |-> Arr(<<>>)]
             ELSE [threw |-> FALSE,
                   value |-> Arr(filterTrades(variant, filterZeroProfit, allTrades.items))]

\* first variant: the three fetches start together
ListStartV1(filterZeroProfit) ==
    /\ ls.pc = "idle"
    /\ ls' = [ls EXCEPT !.pc = "fetching", !.variant = "v1",
                        !.filterZeroProfit = filterZeroProfit, !.sent = Categories]
    /\ UNCHANGED <<sessionVars, gateVars, alertVars, chainVars, placeVars, ft, closeAllVars>>

\* second variant: the fetch of the open positions starts
ListStartV2 ==
    /\ ls.pc = "idle"
    /\ ls' = [ls EXCEPT !.pc = "fetching", !.variant = "v2", !.sent = <<"positions">>]
    /\ UNCHANGED <<sessionVars, gateVars, alertVars, chainVars, placeVars, ft, closeAllVars>>

\* first variant: one of the fetches settles; when all three have settled
\* the answers are processed in order and the reply is sent, a throw of any
\* of them ending in the catch around them
ListSettledV1(category, o) ==
    /\ ls.pc = "fetching" /\ ls.variant = "v1"
    /\ ls.answers[category] = NoAnswer
    /\ LET answers == [ls.answers EXCEPT ![category] = o]
           result == [c \in CategorySet |->
                         Processed("v1", ls.filterZeroProfit, c, answers[c])]
       IN  IF \E c \in CategorySet : answers[c] = NoAnswer
           THEN ls' = [ls EXCEPT !.answers = answers]
           ELSE IF \E c \in CategorySet : result[c].threw
           THEN ls' = [ls EXCEPT !.answers = answers, !.pc = "done", !.status = 500,
                                 !.success = FALSE]
           ELSE ls' = [ls EXCEPT !.answers = answers, !.pc = "done", !.status = 200,
                                 !.success = TRUE,
                                 !.result = [c \in CategorySet |-> result[c].value]]
    /\ UNCHANGED <<sessionVars, gateVars, alertVars, chainVars, placeVars, ft, closeAllVars>>

\* second variant: the fetch in flight ends; its answer is processed, a
\* throw leaving the category empty; then the next fetch starts, or after
\* the third the reply is sent
ListAnsweredV2(category, o) ==
    /\ ls.pc = "fetching" /\ ls.variant = "v2"
    /\ category = ls.sent[Len(ls.sent)]
    /\ LET p == Processed("v2", TRUE, category, o)
           l == [ls EXCEPT !.answers[category] = o, !.result[category] = p.value]
       IN  IF Len(ls.sent) < Len(Categories)
           THEN ls' = [l EXCEPT !.sent = Append(@, Categories[Len(ls.sent) + 1])]
           ELSE ls' = [l EXCEPT !.pc = "done", !.status = 200, !.success = TRUE]
    /\ UNCHANGED <<sessionVars, gateVars, alertVars, chainVars, placeVars, ft, closeAllVars>>

ListAgain ==
    /\ ls.pc = "done"
    /\ ls' = IdleList
    /\ UNCHANGED <<sessionVars, gateVars, alertVars, chainVars, placeVars, ft, closeAllVars>>

NextList ==
    \/ \E filterZeroProfit \in FilterSettings("v1") : ListStartV1(filterZeroProfit)
    \/ ListStartV2
    \/ \E category \in CategorySet : \E o \in FetchOutcomes(category) :
          ListSettledV1(category, o)
    \/ \E category \in CategorySet : \E o \in FetchOutcomes(category) :
          ListAnsweredV2(category, o)
    \/ ListAgain

SpecList == Init /\ [][NextList]_vars

(***************************************************************************)
(* POST /api/positions/close-all after its session part: the fetch of the  *)
(* open positions, one close per position (DELETE, then POST when the      *)
(* DELETE is not accepted), all started together, and the aggregate reply. *)
(***************************************************************************)
\* how many open positions the upstream lists at most
MaxPositions == 3

NullValue == [t |-> "null"]

PositionIdNames == <<"PositionId", "positionId", "Id", "id">>

\* the open positions the upstream may list: with an id under one of two
\* names, without any id, null
PositionChoices ==
    { Obj("PositionId" :> Num(7)), Obj("id" :> Num(8)), Obj(NoFields), NullValue }

PositionLists ==
    UNION { [1..n -> PositionChoices] : n \in 0..MaxPositions }

\* the bodies of an ok answer to GET client/Positions
CloseAllBodies ==
    { Unreadable, Obj("count" :> Arr(<<>>)) }
        \cup { Arr(l) : l \in PositionLists }
        \cup { Obj("positions" :> Arr(l)) : l \in {m \in PositionLists : Len(m) <= 1} }

CloseAllListOutcomes ==
    { [kind |-> "neterr", status |-> 0, body |-> Undefined],
      [kind |-> "http", status |-> 401, body |-> Unreadable],
      [kind |-> "http", status |-> 500, body |-> Unreadable] }
        \cup [kind : {"http"}, status : {200}, body : CloseAllBodies]

\* how a close request ends: an HTTP status, a network error
SubOutcomes ==
    [kind : {"http"}, status : {200, 405, 500}] \cup {[kind |-> "neterr", status |-> 0]}

\* a lookup that finds an identifier on every position
positionIdAlwaysFound(pos) == Num(1)

\* pos.PositionId || pos.positionId || pos.Id || pos.id
positionIdOf(pos) == FirstTruthy(pos.fields, PositionIdNames, Num(0))

\* one element of positions.map(async (pos) => ...), run to its first await
\* or to its end: a null position throws, one without id returns a failure,
\* any other has sent its DELETE
SubStart(pos) ==
    IF pos = NullValue
    THEN [pos |-> pos, state |-> "rejected", success |-> FALSE,
          sent |-> <<>>, answers |-> <<>>, error |-> "TypeError"]
    ELSE IF ~Truthy(positionIdOf(pos))
    THEN [pos |-> pos, state |-> "fulfilled", success |-> FALSE,
          sent |-> <<>>, answers |-> <<>>, error |-> "No position ID"]
    ELSE [pos |-> pos, state |-> "delete", success |-> FALSE,
          sent |-> <<"DELETE client/position/{id}">>, answers |-> <<>>, error |-> "none"]

SubSettled(sub) == sub.state \in {"fulfilled", "rejected"}

closedCountAll(subs) == Len(subs)

\* closeResults.filter(r => r.status === 'fulfilled' && r.value.success).length
closedCount(subs) ==
    Cardinality({i \in 1..Len(subs) : subs[i].state = "fulfilled" /\ subs[i].success})

\* the reply once every close has settled, no reply before
CloseAllSettle(answered, subs) ==
    IF \A i \in 1..Len(subs) : SubSettled(subs[i])
    THEN [ca EXCEPT !.pc = "done", !.listAnswer = answered, !.subs = subs,
                    !.status = 200, !.success = TRUE,
                    !.closed = closedCount(subs),
                    !.failed = Len(subs) - closedCount(subs),
                    !.total = Len(subs), !.hasTotal = TRUE, !.msg = "Closed"]
    ELSE [ca EXCEPT !.pc = "closing", !.listAnswer = answered, !.subs = subs]

\* the handler sends GET client/Positions
CloseAllStart ==
    /\ ca.pc = "idle"
    /\ ca' = [ca EXCEPT !.pc = "listing"]
    /\ UNCHANGED <<sessionVars, gateVars, alertVars, chainVars, placeVars, listVars>>

\* the handler from the answer to GET client/Positions to the start of the
\* closes, or to a reply when there is nothing to close
CloseAllListed(o) ==
    /\ ca.pc = "listing"
    /\ LET c == [ca EXCEPT !.listAnswer = o]
           positions == Unwrap("v2", "positions", o.body)
       IN  IF o.kind # "http"
           THEN ca' = [c EXCEPT !.pc = "done", !.status = 500,
                                !.msg = "Failed to close all positions"]
           ELSE IF ~IsOk(o.status)
           THEN ca' = [c EXCEPT !.pc = "done", !.status = o.status,
                                !.msg = "Failed to fetch positions"]
           ELSE IF o.body = Unreadable
           THEN ca' = [c EXCEPT !.pc = "done", !.status = 500,
                                !.msg = "Failed to close all positions"]
           ELSE IF positions.t # "array" \/ positions.items = <<>>
           THEN ca' = [c EXCEPT !.pc = "done", !.status = 200, !.success = TRUE,
                                !.msg = "No positions to close"]
           ELSE ca' = CloseAllSettle(o, [i \in 1..Len(positions.items) |->
                                            SubStart(positions.items[i])])
    /\ UNCHANGED <<sessionVars, gateVars, alertVars, chainVars, placeVars, listVars>>

\* the close of position i after the answer to its DELETE
SubAfterDelete(sub, o) ==
    LET s == [sub EXCEPT !.answers = Append(@, o)]
    IN  IF o.kind # "http"
        THEN [s EXCEPT !.state = "fulfilled", !.error = "network error"]
        ELSE IF IsOk(o.status) \/ o.status = 204
        THEN [s EXCEPT !.state = "fulfilled", !.success = TRUE]
        ELSE [s EXCEPT !.state = "fallback",
                       !.sent = Append(@, "POST client/position/close")]

\* the close of position i after the answer to its fallback POST
SubAfterFallback(sub, o) ==
    LET s == [sub EXCEPT !.answers = Append(@, o)]
    IN  IF o.kind # "http"
        THEN [s EXCEPT !.state = "fulfilled", !.error = "network error"]
        ELSE IF IsOk(o.status) \/ o.status = 204
        THEN [s EXCEPT !.state = "fulfilled", !.success = TRUE]
        ELSE [s EXCEPT !.state = "fulfilled", !.error = "Failed to close"]

CloseAllDeleteAnswered(i, o) ==
    /\ ca.pc = "closing"
    /\ i \in 1..Len(ca.subs)
    /\ ca.subs[i].state = "delete"
    /\ ca' = CloseAllSettle(ca.listAnswer, [ca.subs EXCEPT ![i] = SubAfterDelete(@, o)])
    /\ UNCHANGED <<sessionVars, gateVars, alertVars, chainVars, placeVars, listVars>>

CloseAllFallbackAnswered(i, o) ==
    /\ ca.pc = "closing"
    /\ i \in 1..Len(ca.subs)
    /\ ca.subs[i].state = "fallback"
    /\ ca' = CloseAllSettle(ca.listAnswer, [ca.subs EXCEPT ![i] = SubAfterFallback(@, o)])
    /\ UNCHANGED <<sessionVars, gateVars, alertVars, chainVars, placeVars, listVars>>

CloseAllAgain ==
    /\ ca.pc = "done"
    /\ ca' = IdleCloseAll
    /\ UNCHANGED <<sessionVars, gateVars, alertVars, chainVars, placeVars, listVars>>

NextCloseAll ==
    \/ CloseAllStart
    \/ \E o \in CloseAllListOutcomes : CloseAllListed(o)
    \/ \E i \in 1..MaxPositions, o \in SubOutcomes : CloseAllDeleteAnswered(i, o)
    \/ \E i \in 1..MaxPositions, o \in SubOutcomes : CloseAllFallbackAnswered(i, o)
    \/ CloseAllAgain

SpecCloseAll == Init /\ [][NextCloseAll]_vars


\* the single close chain as a function of the answers the upstream gives to
\* its attempts, in the order it makes them: how many attempts it makes and
\* whether it reports the position closed
SingleCloseOn(answers) ==
    IF answers[1].kind # "http"
    THEN [attempts |-> 1, accepted |-> FALSE]
    ELSE IF IsAccepted(answers[1].status)
    THEN [attempts |-> 1, accepted |-> TRUE]
    ELSE IF IsFallbackStatus(answers[1].status)
    THEN [attempts |-> 2,
          accepted |-> /\ Len(answers) >= 2
                       /\ answers[2].kind = "http"
                       /\ IsAccepted(answers[2].status)]
    ELSE [attempts |-> 1, accepted |-> FALSE]

(***************************************************************************)
(* The request gate: what every gateway route does with a request before   *)
(* and around its upstream calls -- validation, the account lookup, the    *)
(* password of the row, the token cache, the login, the first trade call   *)
(* (for the single close: its two attempts) and the timers that bound the  *)
(* calls (src/src/routes/orders.ts, src/src/routes/positions.ts, and the   *)
(* metaapi-login route of src/unnamed/part_002).  One request at a time.   *)
(***************************************************************************)
GateOps == GatewayOps \cup {"metaapiLogin"}

\* the routes that answer 401 when req.user?.userId is missing
ChecksUser(op) == op # "metaapiLogin"

\* the routes that answer 400 when accountId is missing (the others take it
\* from the path, where it cannot be empty)
ChecksAccount(op) == op \notin {"listV1", "metaapiLogin"}

\* the routes with further required fields in the body or the path
ChecksFields(op) == op \in {"market", "pending", "modifyPending", "close"}

\* a route that asks tokenCache.get before every other step
CacheBeforeLookupAlways(op) == TRUE

\* the route that asks tokenCache.get before its account lookup
CacheBeforeLookup(op) == op = "metaapiLogin"

\* the routes that read and write tokenCache
GateUsesCache(op) == UsesCache(op) \/ op = "metaapiLogin"

\* the routes that test !mt5Account.password after the lookup
RequiresPassword(op) == op \in {"listV1", "metaapiLogin"}

\* the password column of the row the lookup returns: a password, null, ''
PasswordChoices == {"set", "null", "empty"}

\* the Password field of the login payload.  orders.ts:
\* mt5Account.password?.trim() || ''
LoginPassword(pw) == IF pw = "set" THEN "set" ELSE "empty"

\* Number(req.params.positionId) for the path segments 7, 0, -1, abc, Infinity
PositionIdChoices == {Num(7), Num(0), Num(0 - 1), NaNValue, InfValue}

\* Number.isFinite(positionIdNum) && positionIdNum > 0
ValidPositionId(v) == v.k = "num" /\ v.n > 0

\* the requests tried: the user of the JWT payload ("" for none), the account
\* named ("" for none), whether the other required fields are there, side,
\* orderType, positionId
GateInputs ==
    [user : Users \cup {""}, acct : {"A1", ""}, complete : BOOLEAN,
     side : {"buy", "sell", "hold"}, orderType : {"limit", "stop", "market"},
     positionId : PositionIdChoices]

Passed == [status |-> 0, msg |-> "ok"]

\* the checks a handler makes before its first await, in its order: the status
\* and message of the first that fails
GateValidate(op, in) ==
    IF ChecksUser(op) /\ in.user = ""
    THEN [status |-> 401, msg |-> "Unauthorized"]
    ELSE IF \/ ChecksAccount(op) /\ in.acct = ""
            \/ ChecksFields(op) /\ ~in.complete
    THEN [status |-> 400, msg |-> "Missing required fields"]
    ELSE IF op \in {"market", "pending"} /\ in.side # "buy" /\ in.side # "sell"
    THEN [status |-> 400, msg |-> "Invalid side"]
    ELSE IF op = "pending" /\ OrderTypeCode(in.side, in.orderType) = 0
    THEN [status |-> 400, msg |-> "Invalid orderType"]
    ELSE IF op = "close" /\ ~ValidPositionId(in.positionId)
    THEN [status |-> 400, msg |-> "Invalid positionId"]
    ELSE Passed

\* metaapi-login: loginData?.Token || loginData?.accessToken ||
\* loginData?.AccessToken || loginData?.data?.accessToken || loginData?.token
ExtractTokenMetaapiLogin(body) ==
    IF ExtractTokenListV1(body) # NoToken THEN ExtractTokenListV1(body) ELSE body.token

GateTokenOf(op, body) ==
    IF op = "metaapiLogin" THEN ExtractTokenMetaapiLogin(body) ELSE TokenOf(op, body)

\* the timer set around a call: listV1 aborts its login after 8 s, the single
\* close each of its attempts after 3 s; 0 where the fetch has no signal
LoginTimeoutMs(op) == IF op = "listV1" THEN 8000 ELSE 0

TradeTimeoutMs(op) == IF op = "close" THEN 3000 ELSE 0

\* the upstream requests of the log
LoginRequest(pw) == [call |-> "login", password |-> LoginPassword(pw), token |-> NoToken]

TradeRequest(tok) == [call |-> "trade", password |-> "none", token |-> tok]

\* how the first trade call of a route can be answered
GateTradeOutcomes ==
    [kind : {"http"}, status : {200, 405, 500}] \cup {[kind |-> "neterr", status |-> 0]}

\* res.status(status).json({ success, message })
GateReply(g, status, msg) ==
    [g EXCEPT !.pc = "done", !.status = status, !.msg = msg, !.timeoutMs = 0]

\* the message of the 404 of a route
NotFoundMessage(op) ==
    IF RequiresPassword(op) THEN "Account not found or password not configured"
    ELSE "MT5 account not found"

\* a request arrives and the handler runs to its first await: metaapi-login
\* first asks tokenCache.get and answers with a cached token; then the checks;
\* then the account lookup is awaited
GateStart(op, in) ==
    /\ gw.pc = "idle"
    /\ ~ChecksUser(op) => in.user # ""
    /\ ~ChecksAccount(op) => in.acct # ""
    /\ LET g == [IdleGate EXCEPT !.op = op, !.user = in.user, !.acct = in.acct,
                                 !.cacheAtStart = cache]
           cachedToken == IF CacheBeforeLookup(op)
                          THEN CacheGetResult(cache, in.acct, now) ELSE NoToken
           v == GateValidate(op, in)
       IN /\ cache' = IF CacheBeforeLookup(op) THEN CacheAfterGet(cache, in.acct, now)
                      ELSE cache
          /\ gw' = IF cachedToken # NoToken
                   THEN [GateReply(g, 200, "token") EXCEPT !.disclosed = cachedToken]
                   ELSE IF v.status # 0 THEN GateReply(g, v.status, v.msg)
                   ELSE [g EXCEPT !.pc = "lookup"]
    /\ UNCHANGED <<now, ticks, lastSet, ev, req, chainVars, placeVars, listVars,
                   closeAllVars, alertVars>>

\* prisma.mT5Account.findFirst answers, with the password column pw when there
\* is a row of the caller: 404 without a row (listV1, metaapi-login: also
\* without a password); an order route asks tokenCache.get and with a token
\* sends its trade request; otherwise the login is sent, except that
\* mt5Account.password.trim() of close, close-all and list throws on null
\* inside the try around the login, whose catch answers 500
GateLookup(pw) ==
    /\ gw.pc = "lookup"
    /\ LET found == AccountFound(gw.user, gw.acct)
           g == [gw EXCEPT !.password = pw]
           cachedToken == IF UsesCache(gw.op)
                          THEN CacheGetResult(cache, gw.acct, now) ELSE NoToken
       IN IF ~found
          THEN /\ gw' = GateReply(gw, 404, NotFoundMessage(gw.op))
               /\ cache' = cache
          ELSE IF RequiresPassword(gw.op) /\ pw # "set"
          THEN /\ gw' = GateReply(g, 404, NotFoundMessage(gw.op))
               /\ cache' = cache
          ELSE IF cachedToken # NoToken
          THEN /\ gw' = [g EXCEPT !.pc = "trade",
                                  !.sent = Append(gw.sent, TradeRequest(cachedToken)),
                                  !.timeoutMs = TradeTimeoutMs(gw.op)]
               /\ cache' = cache
          ELSE IF ~UsesCache(gw.op) /\ pw = "null"
          THEN /\ gw' = GateReply(g, 500, "Failed to authenticate with MetaAPI")
               /\ cache' = cache
          ELSE /\ gw' = [g EXCEPT !.pc = "login",
                                  !.sent = Append(gw.sent, LoginRequest(pw)),
                                  !.timeoutMs = LoginTimeoutMs(gw.op)]
               /\ cache' = IF UsesCache(gw.op) THEN CacheAfterGet(cache, gw.acct, now)
                           ELSE cache
    /\ UNCHANGED <<now, ticks, lastSet, ev, req, chainVars, placeVars, listVars,
                   closeAllVars, alertVars>>

\* the login is answered, or its fetch or json() throws: with a token an order
\* route and metaapi-login store it; metaapi-login answers with it, the other
\* routes send their first trade request; without one 401 (listV1: the
\* upstream's status when that is not 2xx), on a throw 500
GateLoginAnswered(o) ==
    /\ gw.pc = "login"
    /\ o.kind # "timeout"
    /\ LET tok == GateTokenOf(gw.op, o.body)
           ok == o.kind = "http" /\ IsOk(o.status) /\ tok # NoToken
       IN /\ cache' = IF ok /\ GateUsesCache(gw.op)
                      THEN CacheSet(cache, gw.acct, tok, DefaultTtlSeconds, now)
                      ELSE cache
          /\ gw' = IF ok /\ gw.op = "metaapiLogin"
                   THEN [GateReply(gw, 200, "token") EXCEPT !.disclosed = tok]
                   ELSE IF ok
                   THEN [gw EXCEPT !.pc = "trade",
                                   !.sent = Append(gw.sent, TradeRequest(tok)),
                                   !.timeoutMs = TradeTimeoutMs(gw.op)]
                   ELSE IF o.kind = "http" /\ gw.op = "listV1" /\ ~IsOk(o.status)
                   THEN GateReply(gw, o.status, "Failed to authenticate with MetaAPI")
                   ELSE IF o.kind = "http" /\ gw.op = "listV1"
                   THEN GateReply(gw, 401, "No access token received from MetaAPI")
                   ELSE IF o.kind = "http"
                   THEN GateReply(gw, 401, "Failed to authenticate with MetaAPI")
                   ELSE IF gw.op = "listV1"
                   THEN GateReply(gw, 500, "MT5 login error")
                   ELSE GateReply(gw, 500, "Failed to authenticate with MetaAPI")
    /\ UNCHANGED <<now, ticks, lastSet, ev, req, chainVars, placeVars, listVars,
                   closeAllVars, alertVars>>

\* the timer of the pending call fires and aborts its fetch: listV1 answers
\* 504 for its login, the catch around the close attempts answers 500
GateTimeout ==
    /\ gw.pc \in {"login", "trade", "fallback"}
    /\ gw.timeoutMs > 0
    /\ gw' = IF gw.pc = "login" THEN GateReply(gw, 504, "MT5 login timeout")
             ELSE GateReply(gw, 500, "Failed to close position")
    /\ UNCHANGED <<now, ticks, cache, lastSet, ev, req, chainVars, placeVars, listVars,
                   closeAllVars, alertVars>>

\* the first trade call is answered or fails: the single close goes on to its
\* fallback on 405/415, every route replies otherwise
GateTradeAnswered(o) ==
    /\ gw.pc = "trade"
    /\ gw' = IF gw.op = "close"
             THEN IF o.kind # "http" THEN GateReply(gw, 500, "Failed to close position")
                  ELSE IF IsAccepted(o.status)
                  THEN GateReply(gw, 200, "Position closed successfully")
                  ELSE IF IsFallbackStatus(o.status)
                  THEN [gw EXCEPT !.pc = "fallback", !.primaryStatus = o.status,
                                  !.sent = Append(gw.sent, gw.sent[Len(gw.sent)]),
                                  !.timeoutMs = TradeTimeoutMs(gw.op)]
                  ELSE GateReply(gw, o.status, "primary")
             ELSE IF o.kind # "http" THEN GateReply(gw, 500, "upstream")
             ELSE IF IsOk(o.status) THEN GateReply(gw, 200, "upstream")
             ELSE GateReply(gw, o.status, "upstream")
    /\ UNCHANGED <<now, ticks, cache, lastSet, ev, req, chainVars, placeVars, listVars,
                   closeAllVars, alertVars>>

\* the fallback POST of the single close is answered or fails
GateFallbackAnswered(o) ==
    /\ gw.pc = "fallback"
    /\ gw' = IF o.kind # "http" THEN GateReply(gw, 500, "Failed to close position")
             ELSE IF IsAccepted(o.status)
             THEN GateReply(gw, 200, "Position closed successfully")
             ELSE GateReply(gw, gw.primaryStatus, "primary")
    /\ UNCHANGED <<now, ticks, cache, lastSet, ev, req, chainVars, placeVars, listVars,
                   closeAllVars, alertVars>>

\* the next request
GateAgain ==
    /\ gw.pc = "done"
    /\ gw' = IdleGate
    /\ UNCHANGED <<now, ticks, cache, lastSet, ev, req, chainVars, placeVars, listVars,
                   closeAllVars, alertVars>>

NextGate ==
    \/ Elapse
    \/ \E op \in GateOps, in \in GateInputs : GateStart(op, in)
    \/ \E pw \in PasswordChoices : GateLookup(pw)
    \/ \E o \in LoginOutcomes : GateLoginAnswered(o)
    \/ GateTimeout
    \/ \E o \in GateTradeOutcomes : GateTradeAnswered(o)
    \/ \E o \in GateTradeOutcomes : GateFallbackAnswered(o)
    \/ GateAgain

SpecGate == Init /\ [][NextGate]_vars

\* what the scheduling of the process guarantees: the local account lookup
\* answers, and a timer that was set fires unless it is cleared; nothing makes
\* the upstream answer
SpecGateLive ==
    /\ SpecGate
    /\ WF_vars(\E pw \in PasswordChoices : GateLookup(pw))
    /\ WF_vars(GateTimeout)

(***************************************************************************)
(* The price-alert store (src/src/routes/alerts.ts): the Map alerts, the   *)
(* counter alertIdCounter and the five routes.  al.op and al.status are    *)
(* the route and the status of the last request answered.                  *)
(***************************************************************************)
\* how many alerts are created in one behaviour
MaxAlerts == 2

\* a body field that is not there
NotGiven == [k |-> "undefined"]

\* the targetPrice values of the request bodies: none, numbers, a string
TargetPrices == {NotGiven, Num(100), Num(200), Num(0), Str(<<"1">>)}

\* the condition values of the request bodies ("" for none)
Conditions == {"", "above", "below", "sideways"}

\* the isActive values of the request bodies
ActiveChoices == {"undefined", "true", "false"}

\* typeof targetPrice !== 'number' || targetPrice <= 0, negated
ValidTargetPrice(v) == v.k = "num" /\ v.n > 0

\* condition !== 'above' && condition !== 'below', negated
ValidCondition(c) == c = "above" \/ c = "below"

\* the alerts of the Map: id -> alert, the ids being the numbers of alert_<n>
AlertIds == 1..MaxAlerts

\* the id of the path: an id the counter can give, or one it never gives
PathIds == 0..MaxAlerts

AlertAnswer(status, op) == [al EXCEPT !.op = op, !.status = status]

\* GET /api/alerts
AlertList(u) ==
    /\ al' = IF u = "" THEN AlertAnswer(401, "list") ELSE AlertAnswer(200, "list")
    /\ UNCHANGED <<sessionVars, chainVars, placeVars, listVars, closeAllVars, gateVars>>

\* POST /api/alerts
AlertCreate(u, complete, targetPrice, condition) ==
    /\ al.counter <= MaxAlerts
    /\ al' = IF u = "" THEN AlertAnswer(401, "create")
             ELSE IF \/ ~complete
                     \/ targetPrice = NotGiven
                     \/ ~Truthy(targetPrice)
                     \/ condition = ""
             THEN AlertAnswer(400, "create")
             ELSE IF ~ValidCondition(condition) THEN AlertAnswer(400, "create")
             ELSE IF ~ValidTargetPrice(targetPrice) THEN AlertAnswer(400, "create")
             ELSE [alerts |-> MapSet(al.alerts, al.counter,
                                     [userId |-> u, targetPrice |-> targetPrice.n,
                                      condition |-> condition, isActive |-> TRUE,
                                      notificationSent |-> FALSE]),
                   counter |-> al.counter + 1, op |-> "create", status |-> 201]
    /\ UNCHANGED <<sessionVars, chainVars, placeVars, listVars, closeAllVars, gateVars>>

\* the fields of the PUT body applied to alert in the order of the handler:
\* the alert as it is when the handler returns, and the status it returns with.
\* alert is the object the Map holds, so every assignment is to the stored alert
UpdateAlert(alert, targetPrice, condition, isActive) ==
    IF targetPrice # NotGiven /\ ~ValidTargetPrice(targetPrice)
    THEN [alert |-> alert, status |-> 400]
    ELSE LET a1 == IF targetPrice # NotGiven
                   THEN [alert EXCEPT !.targetPrice = targetPrice.n] ELSE alert
         IN IF condition # "" /\ ~ValidCondition(condition)
            THEN [alert |-> a1, status |-> 400]
            ELSE LET a2 == IF condition # ""
                           THEN [a1 EXCEPT !.condition = condition] ELSE a1
                     a3 == IF isActive # "undefined"
                           THEN [a2 EXCEPT !.isActive = (isActive = "true")] ELSE a2
                 IN [alert |-> a3, status |-> 200]

\* PUT /api/alerts/:id
AlertUpdate(u, id, targetPrice, condition, isActive) ==
    /\ al' = IF u = "" THEN AlertAnswer(401, "update")
             ELSE IF id \notin DOMAIN al.alerts THEN AlertAnswer(404, "update")
             ELSE IF al.alerts[id].userId # u THEN AlertAnswer(403, "update")
             ELSE LET r == UpdateAlert(al.alerts[id], targetPrice, condition, isActive)
                  IN [al EXCEPT !.alerts = MapSet(al.alerts, id, r.alert),
                                !.op = "update", !.status = r.status]
    /\ UNCHANGED <<sessionVars, chainVars, placeVars, listVars, closeAllVars, gateVars>>

\* DELETE /api/alerts/:id
AlertDelete(u, id) ==
    /\ al' = IF u = "" THEN AlertAnswer(401, "delete")
             ELSE IF id \notin DOMAIN al.alerts THEN AlertAnswer(404, "delete")
             ELSE IF al.alerts[id].userId # u THEN AlertAnswer(403, "delete")
             ELSE [al EXCEPT !.alerts = MapDelete(al.alerts, id),
                             !.op = "delete", !.status = 200]
    /\ UNCHANGED <<sessionVars, chainVars, placeVars, listVars, closeAllVars, gateVars>>

\* POST /api/alerts/:id/trigger (no authentication)
AlertTrigger(id) ==
    /\ al' = IF id \notin DOMAIN al.alerts THEN AlertAnswer(404, "trigger")
             ELSE [al EXCEPT !.alerts[id].notificationSent = TRUE,
                             !.op = "trigger", !.status = 200]
    /\ UNCHANGED <<sessionVars, chainVars, placeVars, listVars, closeAllVars, gateVars>>

NextAlerts ==
    \/ \E u \in Users \cup {""} : AlertList(u)
    \/ \E u \in Users \cup {""}, complete \in BOOLEAN, targetPrice \in TargetPrices,
          condition \in Conditions : AlertCreate(u, complete, targetPrice, condition)
    \/ \E u \in Users \cup {""}, id \in PathIds, targetPrice \in TargetPrices,
          condition \in Conditions, isActive \in ActiveChoices :
              AlertUpdate(u, id, targetPrice, condition, isActive)
    \/ \E u \in Users \cup {""}, id \in PathIds : AlertDelete(u, id)
    \/ \E id \in PathIds : AlertTrigger(id)

SpecAlerts == Init /\ [][NextAlerts]_vars

(***************************************************************************)
(* Properties of the close-position chain (SpecClose).  They are stated on *)
(* the log of attempts and on the reply, in terms of HTTP statuses.        *)
(***************************************************************************)
\* attempt i of the log was answered with an HTTP status
HttpAnswer(i) == i <= Len(cp.attempts) /\ cp.attempts[i].kind = "http"

\* attempt i of the log was answered with HTTP ok or 204
OkAnswer(i) == HttpAnswer(i) /\ cp.attempts[i].status \in 200..299

\* attempt i was sent and was not accepted: a non-ok answer, an abort, a network error
NotAccepted(i) ==
    /\ i <= Len(cp.attempts)
    /\ cp.attempts[i].kind # "pending"
    /\ ~OkAnswer(i)

Fallback1Request(hasVolume) ==
    [method |-> "POST", path |-> "client/position/close",
     fields |-> IF hasVolume THEN {"positionId", "volume"} ELSE {"positionId"}]

\* C1: the attempts are made in the order primary (DELETE client/position/{id})
\* then fallback1 (POST client/position/close); a primary answered 200 or 204
\* ends the chain with success and nothing more is sent; a primary answered
\* 405 is followed by exactly one fallback1 request; no attempt follows an
\* accepted one.
C1_ChainOrder ==
    LET n == Len(cp.attempts) IN
    /\ n <= 2
    /\ n >= 1 => /\ cp.attempts[1].step = "primary"
                 /\ cp.attempts[1].request.method = "DELETE"
                 /\ cp.attempts[1].request.path = "client/position/{id}"
    /\ n = 2 => /\ cp.attempts[2].step = "fallback1"
                /\ cp.attempts[2].request.method = "POST"
                /\ cp.attempts[2].request.path = "client/position/close"
    /\ OkAnswer(1) => n = 1 /\ cp.pc = "done" /\ cp.success /\ cp.status = 200
    /\ (HttpAnswer(1) /\ cp.attempts[1].status = 405) => n = 2
    /\ \A i \in 1..n : OkAnswer(i) => i = n

\* a primary answered 405, then fallback1 answered 200: success after two attempts
C1_Witness ==
    /\ cp.pc = "done"
    /\ Len(cp.attempts) = 2
    /\ cp.attempts[1].kind = "http" /\ cp.attempts[1].status = 405
    /\ cp.attempts[2].kind = "http" /\ cp.attempts[2].status = 200
    /\ cp.success

\* C2 as stated: every primary answer with status 405, 415 or any status >= 400
\* is followed by a fallback1 request.
C2_AsStated ==
    (HttpAnswer(1) /\ cp.attempts[1].status >= 400) =>
        /\ Len(cp.attempts) >= 2
        /\ cp.attempts[2].request = Fallback1Request(cp.hasVolume)

\* C2: the primary answers that are followed by a fallback1 request (POST
\* client/position/close with positionId, and volume when one was given) are
\* exactly those with status 405 or 415; any other answer that is not
\* accepted ends the chain with the primary's status as the reply.
C2_FallbackOn405Or415 ==
    /\ HttpAnswer(1) =>
          IF cp.attempts[1].status \in {405, 415}
          THEN /\ Len(cp.attempts) = 2
               /\ cp.attempts[2].request = Fallback1Request(cp.hasVolume)
          ELSE /\ Len(cp.attempts) = 1
               /\ cp.pc = "done"
               /\ ~OkAnswer(1) => ~cp.success /\ cp.status = cp.attempts[1].status
    /\ Len(cp.attempts) >= 2 => HttpAnswer(1) /\ cp.attempts[1].status \in {405, 415}

\* a primary answered 415 on a close with a volume: fallback1 is in flight with
\* positionId and volume
C2_Witness ==
    /\ cp.pc = "fallback1"
    /\ cp.hasVolume
    /\ cp.attempts[1].kind = "http" /\ cp.attempts[1].status = 415
    /\ cp.attempts[2].kind = "pending"
    /\ cp.attempts[2].request.fields = {"positionId", "volume"}

\* C3 as stated: when fallback1 was attempted and not accepted, a fallback2
\* request (POST Trading/position/close) is made, once, before the failure is
\* replied.
C3_Fallback2 ==
    (cp.pc = "done" /\ NotAccepted(2)) =>
        /\ Len(cp.attempts) = 3
        /\ cp.attempts[3].step = "fallback2"
        /\ cp.attempts[3].request.path = "Trading/position/close"

\* C4 as stated: a close is replied as successful only if its last attempt was
\* answered ok or 204 with a body that does not assert success:false.
C4_BodyFailureNotSuccess ==
    (cp.pc = "done" /\ cp.success) =>
        /\ OkAnswer(Len(cp.attempts))
        /\ ~cp.attempts[Len(cp.attempts)].bodyFail

\* C5 as stated: a primary aborted by its timeout is followed by the next
\* fallback attempt; it does not end the request.
C5_TimeoutLeadsToFallback ==
    (Len(cp.attempts) >= 1 /\ cp.attempts[1].kind = "timeout") =>
        /\ Len(cp.attempts) >= 2
        /\ cp.attempts[2].step = "fallback1"

(***************************************************************************)
(* Properties of the token cache (SpecCache).                              *)
(***************************************************************************)
\* C6: after set(a, t, ttl) at time T with no later set or clear for a, get(a)
\* at time now returns t exactly when now < T + ttl * 1000 - 120000; at or
\* after that instant it returns null and a's entry is gone.
C6_RoundTrip ==
    (ev.kind = "get" /\ lastSet[ev.acct].by # "none") =>
        LET s == lastSet[ev.acct]
            boundary == s.at + s.ttl * 1000 - 120000
        IN /\ (ev.result = s.token) <=> (now < boundary)
           /\ now < boundary => ev.acct \in DOMAIN cache
           /\ now >= boundary => ev.result = NoToken /\ ev.acct \notin DOMAIN cache

\* a get exactly 3 480 000 ms after a set with the default ttl found the entry,
\* returned null and removed it
C6_Witness ==
    /\ ev.kind = "get"
    /\ lastSet[ev.acct].by = "set"
    /\ lastSet[ev.acct].ttl = 3600
    /\ now = lastSet[ev.acct].at + 3480000
    /\ ev.acct \in DOMAIN ev.before
    /\ ev.result = NoToken
    /\ ev.acct \notin DOMAIN cache

(***************************************************************************)
(* Properties of the session part of the gateway (Spec).                   *)
(***************************************************************************)
\* the cache holds a token for a that get would hand out now
HoldsValid(a) == a \in DOMAIN cache /\ now < cache[a].expiresAt - 120000

\* C7 as stated: every gateway operation takes its token from the cache: with
\* a valid cached token no login is sent and that token is used; without one
\* exactly one login is sent, and a successful login stores its token for the
\* account.
C7_TokenFromCache ==
    [][\A r \in Slots :
          /\ (req[r].pc = "lookup" /\ req'[r].pc \in {"login", "trade"}) =>
                IF HoldsValid(req[r].acct)
                THEN /\ req'[r].logins = 0
                     /\ req'[r].pc = "trade"
                     /\ req'[r].token = cache[req[r].acct].token
                ELSE /\ req'[r].logins = 1
                     /\ req'[r].pc = "login"
          /\ (req[r].pc = "login" /\ req'[r].pc = "trade") =>
                /\ req[r].acct \in DOMAIN cache'
                /\ cache'[req[r].acct].token = req'[r].token]_vars

\* C8 as stated: when the upstream answers 401 to a trading call made with a
\* cached token, the cache no longer holds that token for the account.
C8_InvalidatedOn401 ==
    [][\A r \in Slots :
          (/\ req[r].pc = "trade" /\ req[r].usedCached
           /\ req'[r].pc = "done" /\ req'[r].status = 401) =>
              ~(/\ req[r].acct \in DOMAIN cache'
                /\ cache'[req[r].acct].token = req[r].token)]_vars

AuthErrorMessages ==
    {"Failed to authenticate with MetaAPI", "No access token received from MetaAPI",
     "MT5 login timeout", "MT5 login error"}

\* C9: a login that is not answered 2xx, or fails at the network, or whose
\* answer has no token in a recognized field, ends the request with an
\* authentication error; no trade, close or list request was sent, and the
\* step that handles the failed login leaves the token cache as it was.
C9_LoginFailure ==
    /\ [](\A r \in Slots :
            req[r].login = "failed" =>
                /\ req[r].pc = "done"
                /\ req[r].status \in {401, 500, 504}
                /\ req[r].msg \in AuthErrorMessages
                /\ req[r].trades = 0)
    /\ [][\A r \in Slots :
            (req[r].pc = "login" /\ req'[r].login = "failed") => cache' = cache]_vars

\* a pending order whose login was answered 200 without any token was
\* replied 401, with a token of an earlier request still cached
C9_Witness ==
    \E r \in Slots :
        /\ req[r].op = "pending"
        /\ req[r].login = "failed"
        /\ req[r].pc = "done"
        /\ req[r].status = 401
        /\ req[r].logins = 1
        /\ req[r].acct \in DOMAIN cache

\* C10: two requests for one account that both miss the cache each send their
\* own login and each is replied from the answer to its own trade request;
\* the cache then holds, for the account, the token and expiry of the later
\* set.
C10_ConcurrentMisses ==
    /\ \A r \in Slots :
          (req[r].op \in OrderOps /\ req[r].login = "ok") =>
              /\ req[r].logins = 1
              /\ req[r].pc \in {"trade", "done"}
              /\ req[r].pc = "done" => req[r].msg = "upstream"
    /\ \A a \in GatewayAccounts :
          /\ a \in DOMAIN cache =>
                /\ lastSet[a].by \in Slots
                /\ cache[a].token = lastSet[a].token
                /\ cache[a].expiresAt = lastSet[a].at + 3600 * 1000
          /\ (lastSet[a].by \in Slots /\ now < lastSet[a].at + 3600 * 1000 - 120000) =>
                a \in DOMAIN cache

\* r1 and r2 both missed the cache for A1 at the same instant, r1's login gave
\* t1 and then r2's gave t2, both were replied 200, and the cache holds t2
C10_Witness ==
    /\ ticks = 0
    /\ req["r1"].acct = "A1" /\ req["r2"].acct = "A1"
    /\ req["r1"].op = "market" /\ req["r2"].op = "market"
    /\ req["r1"].login = "ok" /\ req["r2"].login = "ok"
    /\ req["r1"].token = "t1" /\ req["r2"].token = "t2"
    /\ req["r1"].pc = "done" /\ req["r2"].pc = "done"
    /\ req["r1"].status = 200 /\ req["r2"].status = 200
    /\ lastSet["A1"].by = "r2"
    /\ cache["A1"].token = "t2"

(***************************************************************************)
(* Properties of order placement (SpecPlace).  They are stated on the      *)
(* inputs of the placement, the order request it sent and its reply.       *)
(***************************************************************************)
\* the symbols of Symbols whose upper-cased name contains BTC or ETH
CryptoSymbols ==
    { <<"B", "T", "C", "U", "S", "D">>, <<"e", "t", "h", "u", "s", "d">> }

\* the whole number k with k - 1/2 <= n / d < k + 1/2
Nearest(n, d) ==
    CHOOSE k \in 0..(n \div d + 1) : (2 * k - 1) * d <= 2 * n /\ 2 * n < (2 * k + 1) * d

\* round(lots * 100), in the unit of a sent volume
Times100(lots) == Nearest(lots * 100, LotUnit) * ToFixedUnit

\* lots / 10 rounded to 4 decimal places, in the unit of a sent volume
DividedBy10(lots) == Nearest(lots * 10000, 10 * LotUnit)

OrderSent(kind) == po.kind = kind /\ Len(po.sent) = 1

C12_MarketVolume ==
    OrderSent("market") => po.sent[1].volume = Times100(po.lots)

\* a market order on a symbol that is no crypto went upstream with a volume
\* the divide-by-10 rule would not give
C12_Witness ==
    /\ OrderSent("market")
    /\ po.symbol \notin CryptoSymbols
    /\ po.lots = 1234
    /\ po.sent[1].volume # DividedBy10(po.lots)

\* the order request was answered with a status that is not 2xx
NonOkAnswer ==
    /\ po.pc = "done"
    /\ po.answer.kind = "http"
    /\ po.answer.status \notin 200..299

\* the answer's body parses and carries 10012 as returnCode or ReturnCode
Carries10012 ==
    /\ po.answer.body.form = "json"
    /\ po.answer.body.returnCode = 10012 \/ po.answer.body.ReturnCode = 10012

\* C13: for market and pending placement, a non-2xx upstream answer whose
\* parsed body carries return code 10012 (as returnCode or ReturnCode) is
\* reported as success with status 'placed' and HTTP 200; a non-2xx answer
\* without that code is reported as a failure with the upstream status.
C13_RequestPlaced ==
    NonOkAnswer =>
        IF Carries10012
        THEN po.status = 200 /\ po.success /\ po.placed
        ELSE ~po.success /\ po.status = po.answer.status

\* the endpoint of a placement by (side, kind)
EndpointOf(kind, side, orderType) ==
    CASE kind = "market" /\ side = "buy" -> "trade"
      [] kind = "market" /\ side = "sell" -> "trade-sell"
      [] kind = "pending" /\ side = "buy" /\ orderType = "limit" -> "buy-limit"
      [] kind = "pending" /\ side = "sell" /\ orderType = "limit" -> "sell-limit"
      [] kind = "pending" /\ side = "buy" /\ orderType = "stop" -> "buy-stop"
      [] kind = "pending" /\ side = "sell" /\ orderType = "stop" -> "sell-stop"
      [] OTHER -> "none"

PlacementEndpoints ==
    {"trade", "trade-sell", "buy-limit", "sell-limit", "buy-stop", "sell-stop"}

\* body fields that would carry the side or the kind of the order
SideFlags ==
    {"Action", "action", "Side", "side", "Type", "type", "OrderType", "orderType"}

\* the placement passed validation, found its account and holds a token
Accepted == po.session \in {"cached", "login"}

\* C14: an accepted placement sends exactly one upstream order request, to
\* the endpoint (side, kind) determines; a placement that is not accepted
\* sends none; no other endpoint is used and no body field carries the side.
C14_OneRequestToEndpoint ==
    /\ Len(po.sent) <= 1
    /\ Accepted <=> Len(po.sent) = 1
    /\ Len(po.sent) = 1 =>
          /\ po.sent[1].method = "POST"
          /\ po.sent[1].path = EndpointOf(po.kind, po.side, po.orderType)
          /\ po.sent[1].path \in PlacementEndpoints
          /\ po.sent[1].fields \cap SideFlags = {}

\* a sell stop was placed: one request, to sell-stop, and the reply is out
C14_Witness ==
    /\ po.pc = "done"
    /\ OrderSent("pending")
    /\ po.side = "sell" /\ po.orderType = "stop"
    /\ po.sent[1].path = "sell-stop"
    /\ po.answer.kind = "http"

(***************************************************************************)
(* Properties of the closed-trade filter (SpecFilter).  They are stated on *)
(* the raw trade the filter was given and on the trades it kept.           *)
(***************************************************************************)
\* a number > 0 that is finite
FinitePositive(v) == v.k = "num" /\ v.n > 0

\* a number > 0, finite or not
Positive(v) == v.k \in {"num", "inf"} /\ (v.k = "num" => v.n > 0)

\* the value a trade resolves to over a list of field names: its first
\* field of the list that is present, 0 when none is
Resolved(trade, names) == Coalesce(trade, names, Num(0))

AllPriceNames == PriceNamesV2

\* the trade has a symbol with a character that is no blank
NonEmptySymbol(trade) ==
    \E i \in 1..Len(SymbolNames) :
        /\ SymbolNames[i] \in DOMAIN trade
        /\ \E j \in 1..Len(trade[SymbolNames[i]].s) : trade[SymbolNames[i]].s[j] # " "

NonZeroProfit(trade) ==
    LET v == Resolved(trade, ProfitNames) IN v.k = "num" /\ v.n # 0

Kept(i) == ft.closedPositions[i]

\* the statement of C15 before its amendment: every closed trade the
\* listing returns has an identifier, a price and a volume that are finite
\* numbers > 0, a non-empty symbol and a finite non-zero profit, in every
\* configuration.
C15_AsStated ==
    \A i \in 1..Len(ft.closedPositions) :
        /\ FinitePositive(Resolved(Kept(i), IdNames))
        /\ NonEmptySymbol(Kept(i))
        /\ FinitePositive(Resolved(Kept(i), AllPriceNames))
        /\ FinitePositive(Resolved(Kept(i), VolumeNames))
        /\ NonZeroProfit(Kept(i))

\* C15: every closed trade the listing returns has a resolved identifier,
\* price and volume that are numbers > 0 (NaN is excluded, Infinity is not),
\* and a non-empty symbol; its profit is finite and not zero in the second
\* variant, and in the first variant unless the environment sets
\* TRADE_HISTORY_FILTER_ZERO_PROFIT to 'false'.
C15_FilterPredicates ==
    \A i \in 1..Len(ft.closedPositions) :
        /\ Positive(Resolved(Kept(i), IdNames))
        /\ NonEmptySymbol(Kept(i))
        /\ Positive(Resolved(Kept(i), AllPriceNames))
        /\ Positive(Resolved(Kept(i), VolumeNames))
        /\ (ft.variant = "v2" \/ ft.filterZeroProfit) => NonZeroProfit(Kept(i))

\* the first variant, with the zero-profit filter switched off, returned a
\* trade whose profit is zero
C15_Witness ==
    /\ ft.pc = "done"
    /\ ft.variant = "v1" /\ ~ft.filterZeroProfit
    /\ Len(ft.closedPositions) = 1
    /\ Resolved(Kept(1), ProfitNames) = Num(0)

\* one of the identifier fields of the trade is a finite number > 0
EitherIdentifier(trade) ==
    \E i \in 1..Len(IdNames) :
        IdNames[i] \in DOMAIN trade /\ FinitePositive(trade[IdNames[i]])

\* C16: the filter accepts a trade on the identifier predicate when either
\* its order identifier or its deal identifier is a finite number > 0: a
\* trade with orderId = 0, dealId = 5, a valid symbol, price and volume and
\* a non-zero profit is in closedPositions.
C16_EitherIdentifier ==
    (/\ ft.pc = "done"
     /\ EitherIdentifier(ft.allTrades[1])
     /\ NonEmptySymbol(ft.allTrades[1])
     /\ FinitePositive(Resolved(ft.allTrades[1], PriceNamesV1))
     /\ FinitePositive(Resolved(ft.allTrades[1], VolumeNames))
     /\ NonZeroProfit(ft.allTrades[1]))
        => ft.closedPositions = ft.allTrades

(***************************************************************************)
(* Properties of the listing (SpecList).  They are stated on the fetches   *)
(* the listing has sent, their answers and the reply.                      *)
(***************************************************************************)
\* the fetch of a category failed: it was rejected, or answered with a
\* status that is not ok, or with a body that cannot be read
FetchFailed(c) ==
    \/ ls.answers[c].kind = "rejected"
    \/ ls.answers[c].kind = "http" /\ ls.answers[c].status \notin 200..299
    \/ ls.answers[c].kind = "http" /\ ls.answers[c].body = Unreadable

\* C17: a failure of any one of the three fetches of the listing (rejected
\* request, non-ok status, unreadable body) gives an empty array for that
\* category only: the overall call still succeeds and the other categories
\* are populated from their own responses.
C17_FetchIsolation ==
    ls.pc = "done" =>
        /\ ls.success /\ ls.status = 200
        /\ \A c \in CategorySet :
              IF FetchFailed(c)
              THEN ls.result[c] = Arr(<<>>)
              ELSE ls.result[c] =
                      Processed(ls.variant, ls.filterZeroProfit, c, ls.answers[c]).value

\* C18: the listing sends its three upstream fetches before it awaits the
\* response of any of them: whenever it waits for an answer, all three
\* requests are out.
C18_ConcurrentFetches ==
    ls.pc = "fetching" =>
        \A c \in CategorySet : \E i \in 1..Len(ls.sent) : ls.sent[i] = c

\* the first of the candidate fields of a body whose value is an array,
\* the empty array when there is none
FirstArray(body, names) ==
    IF \E i \in 1..Len(names) : FieldOf(body, names[i]).t = "array"
    THEN LET i == CHOOSE k \in 1..Len(names) :
                    /\ FieldOf(body, names[k]).t = "array"
                    /\ \A m \in 1..(k - 1) : FieldOf(body, names[m]).t # "array"
         IN  FieldOf(body, names[i])
    ELSE Arr(<<>>)

CandidateNames(variant, c) ==
    CASE variant = "v1" /\ c = "positions" -> PositionNamesV1
      [] variant = "v1" /\ c = "pendingOrders" -> OrderNamesV1
      [] variant = "v2" /\ c = "positions" -> PositionNamesV2
      [] variant = "v2" /\ c = "pendingOrders" -> OrderNamesV2

\* C19: each of positions, pendingOrders and closedPositions of a successful
\* listing reply is an array; positions and pendingOrders of an object body
\* are the first candidate field, in the fixed order, whose value is an
\* array, and the empty array when no candidate is one (never the raw body).
C19_AlwaysArrays ==
    (ls.pc = "done" /\ ls.success) =>
        /\ \A c \in CategorySet : ls.result[c].t = "array"
        /\ \A c \in {"positions", "pendingOrders"} :
              (~FetchFailed(c) /\ ls.answers[c].body.t = "object") =>
                  ls.result[c] = FirstArray(ls.answers[c].body, CandidateNames(ls.variant, c))

(***************************************************************************)
(* Properties of close-all (SpecCloseAll).  They are stated on the answer  *)
(* to the positions listing, the answers to the closes and the reply.      *)
(***************************************************************************)
\* the positions of an ok answer to the listing, none when it failed
ListedPositions ==
    LET o == ca.listAnswer
    IN  IF o.kind = "http" /\ o.status \in 200..299 /\ o.body.t = "array"
        THEN o.body.items
        ELSE IF o.kind = "http" /\ o.status \in 200..299 /\ o.body.t = "object"
                /\ FieldOf(o.body, "positions").t = "array"
        THEN FieldOf(o.body, "positions").items
        ELSE <<>>

\* the closes whose last request was answered with an ok status
ClosedByUpstream ==
    {i \in 1..Len(ca.subs) :
        /\ ca.subs[i].answers # <<>>
        /\ ca.subs[i].answers[Len(ca.subs[i].answers)].kind = "http"
        /\ ca.subs[i].answers[Len(ca.subs[i].answers)].status \in 200..299}

\* C20: when the positions listing succeeds with N >= 1 positions, close-all
\* answers HTTP 200 with success and an aggregate where closed + failed =
\* total = N, closed being the closes the upstream accepted, whatever
\* subset of the closes fails or throws.
C20_Aggregate ==
    (ca.pc = "done" /\ Len(ListedPositions) >= 1) =>
        /\ ca.status = 200 /\ ca.success
        /\ ca.hasTotal
        /\ ca.total = Len(ListedPositions)
        /\ ca.closed + ca.failed = ca.total
        /\ ca.closed = Cardinality(ClosedByUpstream)

\* three positions, two closed and one network error: {closed: 2, failed: 1,
\* total: 3}
C20_Witness ==
    /\ ca.pc = "done"
    /\ Len(ListedPositions) = 3
    /\ ca.closed = 2 /\ ca.failed = 1 /\ ca.total = 3
    /\ \E i \in 1..Len(ca.subs) : ca.subs[i].error = "network error"

\* C21: a close-all sub-operation runs the chain of the single close: on
\* the same upstream answers to a position's attempts it makes as many
\* attempts and reaches the same accepted / failed verdict.
C21_SameChain ==
    \A i \in 1..Len(ca.subs) :
        (SubSettled(ca.subs[i]) /\ ca.subs[i].answers # <<>>) =>
            /\ Len(ca.subs[i].sent) = SingleCloseOn(ca.subs[i].answers).attempts
            /\ ca.subs[i].success = SingleCloseOn(ca.subs[i].answers).accepted

\* the position record has none of the id fields with a usable value
NoIdentifier(pos) ==
    /\ pos.t = "object"
    /\ \A k \in 1..Len(PositionIdNames) :
          PositionIdNames[k] \in DOMAIN pos.fields =>
              pos.fields[PositionIdNames[k]] \in {Num(0), Str(<<>>)}

NoIdentifierSubs == {i \in 1..Len(ca.subs) : NoIdentifier(ca.subs[i].pos)}

\* C22: in close-all a listed position record with no identifiable id field
\* has no close request sent for it, is a failure with the reason 'No
\* position ID', and is counted in failed and in total.
C22_NoIdentifierCounted ==
    /\ \A i \in NoIdentifierSubs :
          /\ ca.subs[i].sent = <<>>
          /\ ~ca.subs[i].success
          /\ ca.subs[i].error = "No position ID"
    /\ (ca.pc = "done" /\ ca.hasTotal) =>
          /\ ca.total = Len(ca.subs)
          /\ ca.failed >= Cardinality(NoIdentifierSubs)
          /\ ca.closed <= Len(ca.subs) - Cardinality(NoIdentifierSubs)

\* close-all is done on two positions, one closed and one without id
C22_Witness ==
    /\ ca.pc = "done"
    /\ Len(ca.subs) = 2
    /\ Cardinality(NoIdentifierSubs) = 1
    /\ ca.closed = 1 /\ ca.failed = 1 /\ ca.total = 2

(***************************************************************************)
(* The reply of a failed single close (SpecClose).                         *)
(***************************************************************************)
\* C28 as stated: a single close reports success exactly when some attempt was
\* answered ok or 204, and when it fails after its attempts were all answered,
\* the status it replies with is the status of the last attempt it made
C28_LastAttemptReported ==
    cp.pc = "done" =>
        /\ cp.success <=>
               \E i \in 1..Len(cp.attempts) :
                   cp.attempts[i].kind = "http" /\ IsAccepted(cp.attempts[i].status)
        /\ (~cp.success /\ cp.attempts[Len(cp.attempts)].kind = "http")
               => cp.status = cp.attempts[Len(cp.attempts)].status

(***************************************************************************)
(* The frame of the TokenCache operations (SpecCache).                     *)
(***************************************************************************)
\* the entries of the accounts other than a are the same in c and d
SameElsewhere(c, d, a) ==
    \A b \in Accounts \ {a} :
        /\ b \in DOMAIN c <=> b \in DOMAIN d
        /\ b \in DOMAIN c => c[b] = d[b]

\* C27: get(a), set(a, ..) and clear(a) leave the entry of every other account
\* as it was; get(a) creates no entry, keeps a's entry unchanged while it is
\* valid and removes it only at or after expiresAt - 120000; from a clear(a)
\* to the next set(a, ..) there is no entry for a and get(a) returns null
C27_CacheFrame ==
    /\ ev.kind \in {"get", "set", "clear"} => SameElsewhere(ev.before, cache, ev.acct)
    /\ ev.kind = "get" =>
          /\ ev.acct \in DOMAIN cache => /\ ev.acct \in DOMAIN ev.before
                                         /\ cache[ev.acct] = ev.before[ev.acct]
          /\ (ev.acct \in DOMAIN ev.before /\ ev.acct \notin DOMAIN cache)
                 => now >= ev.before[ev.acct].expiresAt - 120000
          /\ lastSet[ev.acct].by = "none" => ev.result = NoToken
    /\ ev.kind = "clear" => ev.acct \notin DOMAIN cache
    /\ \A a \in Accounts : lastSet[a].by = "none" => a \notin DOMAIN cache

\* a get of A1 removed A1's expired entry and A2's entry is still there
C27_Witness ==
    /\ ev.kind = "get"
    /\ ev.acct = "A1"
    /\ "A1" \in DOMAIN ev.before
    /\ "A1" \notin DOMAIN cache
    /\ "A2" \in DOMAIN cache
    /\ ev.result = NoToken

(***************************************************************************)
(* Properties of the request gate (SpecGate, SpecGateLive).                *)
(***************************************************************************)
\* C23 as stated: when the lookup returns a row with no password on file (null
\* or ''), the request sends no login and no trade request upstream, and it is
\* answered with the account-not-configured error
C23_NoPasswordNoRequest ==
    gw.password \in {"null", "empty"} =>
        /\ gw.sent = <<>>
        /\ gw.pc = "done" => gw.msg = "Account not found or password not configured"

\* C24 as stated: every upstream call the gateway is waiting on is bounded by
\* a timer of its own
C24_EveryCallBounded ==
    gw.pc \in {"login", "trade", "fallback"} => gw.timeoutMs > 0

\* the consequence C24 draws, under SpecGateLive: every request the gateway has
\* started work on is eventually answered, whatever the upstream does.  It
\* fails at every call that has no timer, as far as the handlers themselves
\* bound their calls
EveryRequestAnswered ==
    (gw.pc \in {"lookup", "login", "trade", "fallback"}) ~> (gw.pc = "done")

\* C26 as stated: a token of the cache or of a login for account A is disclosed
\* in a reply, or used in a trade request, only when the caller owns A
C26_TokenOnlyToOwner ==
    /\ gw.disclosed # NoToken => gw.acct \in Accounts /\ AccountFound(gw.user, gw.acct)
    /\ \A i \in 1..Len(gw.sent) :
           gw.sent[i].call = "trade" => AccountFound(gw.user, gw.acct)

\* a market, pending, pending-modify or close request that was rejected by a
\* check or by the account lookup
RejectedAtGate ==
    /\ gw.pc = "done"
    /\ gw.op \in {"market", "pending", "modifyPending", "close"}
    /\ gw.msg \in {"Unauthorized", "Missing required fields", "Invalid side",
                   "Invalid orderType", "Invalid positionId", "MT5 account not found"}

\* C29: a market, pending, pending-modify or close request rejected for a
\* missing user or field, an invalid side, an invalid (side, orderType), an
\* invalid positionId or an account the caller does not own is answered 400,
\* 401 or 404, has sent nothing upstream and has left the token cache as it
\* was when the request arrived
C29_ValidationFirst ==
    RejectedAtGate =>
        /\ gw.status \in {400, 401, 404}
        /\ gw.sent = <<>>
        /\ cache = gw.cacheAtStart

\* U2's market order on U1's account was answered 404 while the cache holds a
\* token of that account that a get would have removed as expired
C29_Witness ==
    /\ RejectedAtGate
    /\ gw.op = "market"
    /\ gw.user = "U2"
    /\ gw.acct = "A1"
    /\ gw.status = 404
    /\ "A1" \in DOMAIN cache
    /\ ~EntryValid(cache["A1"], now)

(***************************************************************************)
(* Properties of the price-alert store (SpecAlerts).                       *)
(***************************************************************************)
\* C30 as stated: a PUT /api/alerts/:id that is answered 400, 403 or 404 leaves
\* every stored alert as it was before the request
C30_FailedUpdateChangesNothing ==
    [][(al'.op = "update" /\ al'.status \in {400, 403, 404}) => al'.alerts = al.alerts]_vars

====
